---- MODULE Spec2Model ----
(***************************************************************************)
(* Risk-and-suitability engine of the investment research platform:        *)
(* RiskAssessmentAgent (risk_agent.py), ComplianceAgent                    *)
(* (compliance_agent.py) and the helpers they inherit from                 *)
(* FinancialBaseAgent (base_agent.py).                                     *)
(*                                                                         *)
(* Representation of Python values                                         *)
(*   dict            a TLA+ record; a key is absent when it is not in the  *)
(*                   record's DOMAIN (DictGet models dict.get).            *)
(*   number / None / non-numeric string                                    *)
(*                   a tagged value [t |-> "num"|"None"|"str", n |-> Int]. *)
(*   floats          fixed point integers, exact rational arithmetic:      *)
(*                   beta, debt_to_equity      hundredths  (1.2  -> 120)   *)
(*                   values, prices            currency units              *)
(*                   results of round(x, 2)    hundredths                  *)
(*                   results of round(x, 3)    thousandths                 *)
(*                   correlations              tenths      (0.3  -> 3)     *)
(*                   a score carried in halves (score2 = 2 * score) where  *)
(*                   the code adds 0.5.                                    *)
(*   exceptions      an operator fooRaises gives the name of the exception *)
(*                   the body of foo raises ("" when none); foo itself     *)
(*                   returns what its except clause returns.               *)
(***************************************************************************)
EXTENDS Integers, Sequences, FiniteSets, TLC

VARIABLES op, args, ret, pc, clock, audit_events,
          sector_correlation_matrix, compliance_rules, risk_thresholds,
          stocks, calls, completed

vars == <<op, args, ret, pc, clock, audit_events,
          sector_correlation_matrix, compliance_rules, risk_thresholds,
          stocks, calls, completed>>

(***************************************************************************)
(* Bounds of the model.                                                    *)
(***************************************************************************)
MaxHoldings == 3
MaxValue == 2
MaxRiskScore == 11
MaxHighRisks == 6
MaxRiskFactors == 6
MaxCalls == 3
MaxPrice == 12
MaxVolatility == 104
MaxSectors == 9

(***************************************************************************)
(* Python values.                                                          *)
(***************************************************************************)
Num(n) == [t |-> "num", n |-> n]
PyNone == [t |-> "None", n |-> 0]
PyStr == [t |-> "str", n |-> 0]

IsNum(x) == x.t = "num"

\* bool(x): None and 0 are falsy, a non-empty string and a non-zero number truthy
Truthy(x) == x.t = "str" \/ (x.t = "num" /\ x.n # 0)

\* dict.get(key, default)
DictGet(d, key, default) == IF key \in DOMAIN d THEN d[key] ELSE default

\* round(n / d, 0) for d > 0: Python rounds halves to even
RoundDiv(n, d) ==
    LET q == n \div d
        r == n % d
    IN  IF 2 * r < d THEN q
        ELSE IF 2 * r > d THEN q + 1
        ELSE IF q % 2 = 0 THEN q ELSE q + 1

Max2(a, b) == IF a >= b THEN a ELSE b
Min2(a, b) == IF a <= b THEN a ELSE b

RECURSIVE SeqSum(_)
SeqSum(s) == IF s = <<>> THEN 0 ELSE Head(s) + SeqSum(Tail(s))

RECURSIVE SeqMax(_)
SeqMax(s) == IF Len(s) = 1 THEN s[1] ELSE Max2(Head(s), SeqMax(Tail(s)))

Take(s, n) == SubSeq(s, 1, Min2(n, Len(s)))

(***************************************************************************)
(* Lookup tables built by the constructors.                                *)
(***************************************************************************)
MatrixSectors == {"Technology", "Healthcare", "Financial Services",
                  "Consumer Discretionary", "Consumer Staples", "Energy"}

_initialize_correlation_matrix ==
    [ Technology |->
        [ Technology |-> 10, Healthcare |-> 3, Financial_Services |-> 4,
          Consumer_Discretionary |-> 6, Consumer_Staples |-> 1, Energy |-> 2 ],
      Healthcare |->
        [ Technology |-> 3, Healthcare |-> 10, Financial_Services |-> 2,
          Consumer_Discretionary |-> 3, Consumer_Staples |-> 4, Energy |-> 1 ],
      Financial_Services |->
        [ Technology |-> 4, Healthcare |-> 2, Financial_Services |-> 10,
          Consumer_Discretionary |-> 5, Consumer_Staples |-> 3, Energy |-> 6 ],
      Consumer_Discretionary |->
        [ Technology |-> 6, Healthcare |-> 3, Financial_Services |-> 5,
          Consumer_Discretionary |-> 10, Consumer_Staples |-> 4, Energy |-> 3 ],
      Consumer_Staples |->
        [ Technology |-> 1, Healthcare |-> 4, Financial_Services |-> 3,
          Consumer_Discretionary |-> 4, Consumer_Staples |-> 10, Energy |-> 2 ],
      Energy |->
        [ Technology |-> 2, Healthcare |-> 1, Financial_Services |-> 6,
          Consumer_Discretionary |-> 3, Consumer_Staples |-> 2, Energy |-> 10 ] ]

\* the record field that stands for a sector name (blanks become underscores)
SectorKey(s) ==
    CASE s = "Financial Services" -> "Financial_Services"
      [] s = "Consumer Discretionary" -> "Consumer_Discretionary"
      [] s = "Consumer Staples" -> "Consumer_Staples"
      [] OTHER -> s

\* RiskAssessmentAgent.__init__: self.risk_thresholds, in hundredths
RiskThresholdsInit ==
    [ low |-> [var_95 |-> 5, beta |-> 70, concentration |-> 20],
      moderate |-> [var_95 |-> 10, beta |-> 120, concentration |-> 35],
      high |-> [var_95 |-> 20, beta |-> 180, concentration |-> 50] ]

ComplianceRulesInit ==
    [ suitability |->
        [ conservative |-> [max_risk_score |-> 4, max_volatility |-> 120, min_liquidity |-> "High"],
          moderate |-> [max_risk_score |-> 7, max_volatility |-> 150, min_liquidity |-> "Moderate"],
          aggressive |-> [max_risk_score |-> 10, max_volatility |-> 200, min_liquidity |-> "Low"] ],
      concentration_limits |->
        [ single_security |-> 20, sector |-> 35, asset_class |-> 80 ],
      documentation_requirements |->
        << "investment_rationale", "risk_assessment",
           "suitability_analysis", "client_acknowledgment" >> ]

(***************************************************************************)
(* Holdings.  A holding is a dict with the optional keys value, beta,      *)
(* pe_ratio, debt_to_equity (tagged values) and sector (a string).         *)
(***************************************************************************)
HoldingValue(h) == DictGet(h, "value", Num(0))
HoldingSector(h) == DictGet(h, "sector", "Unknown")

\* sum(holding.get('value', 0) for holding in holdings): TypeError on a
\* value that is None or a string
SumRaises(holdings) ==
    IF \E i \in 1..Len(holdings) : ~IsNum(HoldingValue(holdings[i]))
    THEN "TypeError" ELSE ""

SumValues(holdings) == SeqSum([i \in 1..Len(holdings) |-> HoldingValue(holdings[i]).n])

\* sum over the holdings of value * field, the numerator of a weighted mean
WeightedSum(holdings, key, default) ==
    SeqSum([i \in 1..Len(holdings) |->
              HoldingValue(holdings[i]).n * DictGet(holdings[i], key, Num(default)).n])

FieldRaises(holdings, key, default) ==
    \E i \in 1..Len(holdings) : ~IsNum(DictGet(holdings[i], key, Num(default)))

\* FinancialBaseAgent._calculate_portfolio_beta, in thousandths
_calculate_portfolio_beta(holdings) ==
    IF holdings = <<>> THEN 1000
    ELSE IF SumRaises(holdings) # "" THEN 1000
    ELSE IF SumValues(holdings) = 0 THEN 1000
    ELSE IF FieldRaises(holdings, "beta", 100) THEN 1000
    ELSE RoundDiv(10 * WeightedSum(holdings, "beta", 100), SumValues(holdings))

\* the exception raised inside _calculate_portfolio_risk_metrics, "" if none
PortfolioRiskMetricsRaises(holdings) ==
    IF SumRaises(holdings) # "" THEN "TypeError"
    ELSE IF SumValues(holdings) = 0 THEN "ValueError"
    ELSE IF \/ FieldRaises(holdings, "beta", 100)
            \/ FieldRaises(holdings, "pe_ratio", 20)
            \/ FieldRaises(holdings, "debt_to_equity", 50)
         THEN "TypeError"
    ELSE ""

\* variant: the first position taken for the largest
FirstPosition(holdings) == HoldingValue(holdings[1]).n

LargestPosition(holdings) == SeqMax([i \in 1..Len(holdings) |-> HoldingValue(holdings[i]).n])

RiskConcentration(largest, total) ==
    IF 10 * largest > 3 * total THEN "High"
    ELSE IF 100 * largest > 15 * total THEN "Moderate"
    ELSE "Low"

\* RiskAssessmentAgent._calculate_portfolio_risk_metrics
_calculate_portfolio_risk_metrics(holdings) ==
    IF PortfolioRiskMetricsRaises(holdings) # ""
    THEN [error |-> PortfolioRiskMetricsRaises(holdings)]
    ELSE LET total_value == SumValues(holdings)
             largest_position == LargestPosition(holdings)
         IN  [ portfolio_beta |-> RoundDiv(10 * WeightedSum(holdings, "beta", 100), total_value),
               weighted_pe_ratio |-> RoundDiv(100 * WeightedSum(holdings, "pe_ratio", 20), total_value),
               weighted_debt_equity |-> RoundDiv(WeightedSum(holdings, "debt_to_equity", 50), total_value),
               concentration_ratio |-> RoundDiv(1000 * largest_position, total_value),
               number_of_positions |-> Len(holdings),
               average_position_size |-> RoundDiv(100 * total_value, Len(holdings)),
               risk_concentration |-> RiskConcentration(largest_position, total_value) ]

(***************************************************************************)
(* Diversification.                                                        *)
(***************************************************************************)
\* the sectors of the holdings in order of first appearance (the insertion
\* order of the sector_allocation dict)
RECURSIVE SectorOrder(_)
SectorOrder(holdings) ==
    IF holdings = <<>> THEN <<>>
    ELSE LET front == SectorOrder(SubSeq(holdings, 1, Len(holdings) - 1))
             s == HoldingSector(holdings[Len(holdings)])
         IN  IF \E i \in 1..Len(front) : front[i] = s THEN front ELSE Append(front, s)

\* variant: sector_allocation[sector] = value, the last holding of a sector
\* overwriting the earlier ones
SectorValueOverwritten(holdings, s) ==
    LET last == CHOOSE i \in 1..Len(holdings) :
                    /\ HoldingSector(holdings[i]) = s
                    /\ \A j \in (i+1)..Len(holdings) : HoldingSector(holdings[j]) # s
    IN  IF \E i \in 1..Len(holdings) : HoldingSector(holdings[i]) = s
        THEN HoldingValue(holdings[last]).n
        ELSE 0

\* sector_allocation[sector] = sector_allocation.get(sector, 0) + value
SectorValue(holdings, s) ==
    SeqSum([i \in 1..Len(holdings) |->
              IF HoldingSector(holdings[i]) = s THEN HoldingValue(holdings[i]).n ELSE 0])

\* round((value / total_value) * 100, 2), in hundredths of a percent
SectorPercent(value, total_value) == RoundDiv(10000 * value, total_value)

\* RiskAssessmentAgent._calculate_diversification_score
_calculate_diversification_score(num_sectors, largest_allocation) ==
    LET s1 == IF num_sectors >= 8 THEN 5 + 2
              ELSE IF num_sectors >= 5 THEN 5 + 1
              ELSE IF num_sectors <= 2 THEN 5 - 2
              ELSE 5
        s2 == IF largest_allocation > 5000 THEN s1 - 3
              ELSE IF largest_allocation > 3000 THEN s1 - 2
              ELSE IF largest_allocation > 2000 THEN s1 - 1
              ELSE IF largest_allocation < 1500 THEN s1 + 1
              ELSE s1
    IN  Max2(1, Min2(10, s2))

\* variant: Excellent only above 8
_get_diversification_level_exclusive(score) ==
    IF score > 8 THEN "Excellent"
    ELSE IF score >= 6 THEN "Good"
    ELSE IF score >= 4 THEN "Fair"
    ELSE "Poor"

\* RiskAssessmentAgent._get_diversification_level
_get_diversification_level(score) ==
    IF score >= 8 THEN "Excellent"
    ELSE IF score >= 6 THEN "Good"
    ELSE IF score >= 4 THEN "Fair"
    ELSE "Poor"

MajorSectors == << "Technology", "Healthcare", "Financial Services", "Consumer Discretionary" >>

\* RiskAssessmentAgent._get_diversification_recommendations: order is the
\* sectors' insertion order, sector_allocations their percentages
_get_diversification_recommendations(order, sector_allocations) ==
    LET over == SelectSeq([i \in 1..Len(order) |->
                             [action |-> "reduce", sector |-> order[i]]],
                          LAMBDA r : sector_allocations[r.sector] > 4000)
        gaps == SelectSeq([i \in 1..Len(MajorSectors) |->
                             [action |-> "add", sector |-> MajorSectors[i]]],
                          LAMBDA r : r.sector \notin DOMAIN sector_allocations)
    IN  Take(over \o gaps, 3)

DiversificationRaises(holdings) ==
    IF SumRaises(holdings) # "" THEN "TypeError"
    ELSE IF holdings # <<>> /\ SumValues(holdings) = 0 THEN "ZeroDivisionError"
    ELSE ""

\* RiskAssessmentAgent._analyze_portfolio_diversification
_analyze_portfolio_diversification(holdings) ==
    IF DiversificationRaises(holdings) # ""
    THEN [error |-> DiversificationRaises(holdings)]
    ELSE LET order == SectorOrder(holdings)
             sectors == {order[i] : i \in 1..Len(order)}
             total_value == SumValues(holdings)
             sector_percentages ==
                 [s \in sectors |-> SectorPercent(SectorValue(holdings, s), total_value)]
             num_sectors == Len(order)
             largest == IF order = <<>> THEN 0
                        ELSE SeqMax([i \in 1..Len(order) |-> sector_percentages[order[i]]])
             score == _calculate_diversification_score(num_sectors, largest)
         IN  [ sector_allocation |-> sector_percentages,
               number_of_sectors |-> num_sectors,
               largest_sector_allocation |-> largest,
               diversification_score |-> score,
               diversification_level |-> _get_diversification_level(score),
               recommendations |-> _get_diversification_recommendations(order, sector_percentages) ]

(***************************************************************************)
(* Portfolio correlation, VaR, health score and action items.              *)
(***************************************************************************)
\* self.sector_correlation_matrix.get(sector1, {}).get(sector2, 0.3), tenths
Correlation(matrix, sector1, sector2) ==
    IF SectorKey(sector1) \in DOMAIN matrix
    THEN DictGet(matrix[SectorKey(sector1)], SectorKey(sector2), 3)
    ELSE 3

\* variant: the sum over the pairs left undivided by their number
PairCountOne(holdings) == IF Len(holdings) < 2 THEN 0 ELSE 1

PairCount(holdings) == (Len(holdings) * (Len(holdings) - 1)) \div 2

\* sum over the pairs i < j of correlation * value_i * value_j
PairSum(matrix, holdings) ==
    SeqSum([i \in 1..Len(holdings) |->
        SeqSum([j \in 1..Len(holdings) |->
            IF i < j
            THEN Correlation(matrix, HoldingSector(holdings[i]), HoldingSector(holdings[j]))
                   * HoldingValue(holdings[i]).n * HoldingValue(holdings[j]).n
            ELSE 0])])

\* the weights are computed inside the loop over the pairs
CorrelationsRaises(holdings) ==
    IF PairCount(holdings) = 0 THEN ""
    ELSE IF SumRaises(holdings) # "" THEN "TypeError"
    ELSE IF SumValues(holdings) = 0 THEN "ZeroDivisionError"
    ELSE ""

\* the class of avg_correlation = num / den (den > 0), compared with 0.6 and 0.3
CorrelationRisk(num, den) ==
    IF 10 * num > 6 * den THEN "High"
    ELSE IF 10 * num > 3 * den THEN "Moderate"
    ELSE "Low"

\* RiskAssessmentAgent._analyze_portfolio_correlations
_analyze_portfolio_correlations(matrix, holdings) ==
    IF CorrelationsRaises(holdings) # ""
    THEN [error |-> CorrelationsRaises(holdings)]
    ELSE LET total == SumValues(holdings)
             \* avg_correlation = PairSum / (10 * total^2 * max(pair_count, 1))
             num == IF PairCount(holdings) = 0 THEN 0 ELSE PairSum(matrix, holdings)
             den == IF PairCount(holdings) = 0 THEN 1
                    ELSE 10 * total * total * PairCount(holdings)
         IN  [ average_correlation |-> RoundDiv(1000 * num, den),
               correlation_risk |-> CorrelationRisk(num, den) ]

PortfolioVarRaises(holdings) ==
    IF SumRaises(holdings) # "" THEN "TypeError"
    ELSE IF SumValues(holdings) = 0 THEN "ZeroDivisionError"
    ELSE ""

\* RiskAssessmentAgent._calculate_portfolio_var:
\* daily_var_95 = total_value * 0.016 * portfolio_beta * 1.65
_calculate_portfolio_var(holdings) ==
    IF PortfolioVarRaises(holdings) # ""
    THEN [error |-> PortfolioVarRaises(holdings)]
    ELSE LET total_value == SumValues(holdings)
             portfolio_beta == _calculate_portfolio_beta(holdings)
         IN  [ portfolio_var_95_1day |->
                   RoundDiv(total_value * 16 * portfolio_beta * 165, 1000000),
               portfolio_var_95_1day_percent |->
                   RoundDiv(16 * portfolio_beta * 165, 10000),
               portfolio_value |-> total_value ]

\* variant: the test for > 0.3 placed before the test for > 0.4
_calculate_portfolio_health_score_flat(metrics, diversification) ==
    LET div_score == DictGet(diversification, "diversification_score", 5)
        concentration == DictGet(metrics, "concentration_ratio", 200)
        portfolio_beta == DictGet(metrics, "portfolio_beta", 1000)
        s1 == 60 + (div_score - 5) * 3
        s2 == IF concentration < 150 THEN s1 + 10
              ELSE IF concentration < 250 THEN s1 + 5
              ELSE IF concentration > 300 THEN s1 - 10
              ELSE IF concentration > 400 THEN s1 - 15
              ELSE s1
        s3 == IF 800 <= portfolio_beta /\ portfolio_beta <= 1200 THEN s2 + 10
              ELSE IF 600 <= portfolio_beta /\ portfolio_beta <= 1400 THEN s2 + 5
              ELSE s2 - 5
    IN  Max2(1, Min2(100, s3))

\* RiskAssessmentAgent._calculate_portfolio_health_score
_calculate_portfolio_health_score(metrics, diversification) ==
    LET div_score == DictGet(diversification, "diversification_score", 5)
        concentration == DictGet(metrics, "concentration_ratio", 200)
        portfolio_beta == DictGet(metrics, "portfolio_beta", 1000)
        s1 == 60 + (div_score - 5) * 3
        s2 == IF concentration < 150 THEN s1 + 10
              ELSE IF concentration < 250 THEN s1 + 5
              ELSE IF concentration > 400 THEN s1 - 15
              ELSE IF concentration > 300 THEN s1 - 10
              ELSE s1
        s3 == IF 800 <= portfolio_beta /\ portfolio_beta <= 1200 THEN s2 + 10
              ELSE IF 600 <= portfolio_beta /\ portfolio_beta <= 1400 THEN s2 + 5
              ELSE s2 - 5
    IN  Max2(1, Min2(100, s3))

\* variant: the maintenance items first, the priority items after them
_generate_action_items_maintenance_first(metrics, diversification) ==
    LET concentration_ratio == DictGet(metrics, "concentration_ratio", 0)
        diversification_score == DictGet(diversification, "diversification_score", 5)
        a1 == IF concentration_ratio > 300
              THEN << "PRIORITY: Reduce largest position to under 20% of portfolio" >>
              ELSE <<>>
        a2 == IF diversification_score < 4
              THEN << "PRIORITY: Add positions in at least 2 additional sectors" >>
              ELSE <<>>
    IN  Take(<< "Review and rebalance portfolio quarterly",
                "Monitor sector allocations monthly",
                "Assess correlation changes during market volatility" >> \o a1 \o a2, 5)

\* RiskAssessmentAgent._generate_action_items
_generate_action_items(metrics, diversification) ==
    LET concentration_ratio == DictGet(metrics, "concentration_ratio", 0)
        diversification_score == DictGet(diversification, "diversification_score", 5)
        a1 == IF concentration_ratio > 300
              THEN << "PRIORITY: Reduce largest position to under 20% of portfolio" >>
              ELSE <<>>
        a2 == IF diversification_score < 4
              THEN << "PRIORITY: Add positions in at least 2 additional sectors" >>
              ELSE <<>>
    IN  Take(a1 \o a2 \o << "Review and rebalance portfolio quarterly",
                            "Monitor sector allocations monthly",
                            "Assess correlation changes during market volatility" >>, 5)

\* RiskAssessmentAgent._generate_optimization_recommendations
_generate_optimization_recommendations(metrics, diversification) ==
    LET concentration_ratio == DictGet(metrics, "concentration_ratio", 0)
        diversification_score == DictGet(diversification, "diversification_score", 5)
        portfolio_beta == DictGet(metrics, "portfolio_beta", 1000)
        r1 == IF concentration_ratio > 300
              THEN << "Reduce concentration risk by limiting individual positions to <20% of portfolio" >>
              ELSE <<>>
        r2 == IF diversification_score < 5
              THEN << "Improve diversification by adding positions in underrepresented sectors" >>
              ELSE <<>>
        r3 == IF portfolio_beta > 1300
              THEN << "Consider adding defensive positions to reduce portfolio beta" >>
              ELSE IF portfolio_beta < 700
              THEN << "Portfolio may be too conservative - consider adding growth positions" >>
              ELSE <<>>
    IN  Take(r1 \o r2 \o r3 \o << "Rebalance portfolio quarterly to maintain target allocations",
                                  "Monitor correlation changes during market stress periods" >>, 5)

\* the exception that reaches the except clause of analyze_portfolio: the
\* guard on empty holdings, or the sum that builds total_value
AnalyzePortfolioRaises(holdings) ==
    IF holdings = <<>> THEN "ValueError"
    ELSE IF SumRaises(holdings) # "" THEN "TypeError"
    ELSE ""

\* variant: a health score that decays with the clock
PortfolioAnalysisDecaying(matrix, client_id, holdings, now) ==
    IF AnalyzePortfolioRaises(holdings) # ""
    THEN [ client_id |-> client_id,
           error |-> "Portfolio analysis failed",
           message |-> AnalyzePortfolioRaises(holdings) ]
    ELSE LET portfolio_metrics == _calculate_portfolio_risk_metrics(holdings)
             diversification_analysis == _analyze_portfolio_diversification(holdings)
         IN  [ client_id |-> client_id,
               total_holdings |-> Len(holdings),
               total_value |-> SumValues(holdings),
               health_score |->
                   Max2(1, _calculate_portfolio_health_score(portfolio_metrics,
                                                             diversification_analysis) - now),
               risk_metrics |-> portfolio_metrics,
               diversification |-> diversification_analysis,
               correlation_analysis |-> _analyze_portfolio_correlations(matrix, holdings),
               var_analysis |-> _calculate_portfolio_var(holdings),
               optimization_recommendations |->
                   _generate_optimization_recommendations(portfolio_metrics, diversification_analysis),
               action_items |->
                   _generate_action_items(portfolio_metrics, diversification_analysis),
               analysis_timestamp |-> now ]

\* the dict RiskAssessmentAgent.analyze_portfolio returns at time now (the
\* generated narrative, ai_insights, is left out: it is free text)
PortfolioAnalysis(matrix, client_id, holdings, now) ==
    IF AnalyzePortfolioRaises(holdings) # ""
    THEN [ client_id |-> client_id,
           error |-> "Portfolio analysis failed",
           message |-> AnalyzePortfolioRaises(holdings) ]
    ELSE LET portfolio_metrics == _calculate_portfolio_risk_metrics(holdings)
             diversification_analysis == _analyze_portfolio_diversification(holdings)
         IN  [ client_id |-> client_id,
               total_holdings |-> Len(holdings),
               total_value |-> SumValues(holdings),
               health_score |->
                   _calculate_portfolio_health_score(portfolio_metrics, diversification_analysis),
               risk_metrics |-> portfolio_metrics,
               diversification |-> diversification_analysis,
               correlation_analysis |-> _analyze_portfolio_correlations(matrix, holdings),
               var_analysis |-> _calculate_portfolio_var(holdings),
               optimization_recommendations |->
                   _generate_optimization_recommendations(portfolio_metrics, diversification_analysis),
               action_items |->
                   _generate_action_items(portfolio_metrics, diversification_analysis),
               analysis_timestamp |-> now ]

(***************************************************************************)
(* FinancialBaseAgent._assess_investment_suitability (single investment).  *)
(***************************************************************************)
\* variant: an unrecognised tier given the tolerance of the aggressive tier
risk_tolerance_map_default_aggressive(client_risk_tolerance) ==
    CASE client_risk_tolerance = "conservative" -> 3
      [] client_risk_tolerance = "moderate" -> 5
      [] client_risk_tolerance = "aggressive" -> 8
      [] OTHER -> 8

\* variant: the tolerance of a tier taken from the policy's max_risk_score
risk_tolerance_map_policy(client_risk_tolerance) ==
    CASE client_risk_tolerance = "conservative" -> 4
      [] client_risk_tolerance = "moderate" -> 7
      [] client_risk_tolerance = "aggressive" -> 10
      [] OTHER -> 7

\* risk_tolerance_map.get(client_risk_tolerance, 5)
risk_tolerance_map(client_risk_tolerance) ==
    CASE client_risk_tolerance = "conservative" -> 3
      [] client_risk_tolerance = "moderate" -> 5
      [] client_risk_tolerance = "aggressive" -> 8
      [] OTHER -> 5

\* a comparison of a number with None or a string raises TypeError
CompareRaises(x) == IF IsNum(x) THEN "" ELSE "TypeError"

SuitabilityWarnings(investment_data) ==
    (IF DictGet(investment_data, "liquidity_risk", FALSE)
     THEN << "This investment may have limited liquidity" >> ELSE <<>>)
    \o
    (IF DictGet(investment_data, "complexity_high", FALSE)
     THEN << "This is a complex investment product" >> ELSE <<>>)

_assess_investment_suitability(investment_data, client_profile) ==
    LET risk_score == DictGet(investment_data, "risk_score", Num(5))
        client_risk_tolerance == DictGet(client_profile, "risk_tolerance", "moderate")
        client_risk_score == risk_tolerance_map(client_risk_tolerance)
        suitable == risk_score.n <= client_risk_score + 1
    IN  IF CompareRaises(risk_score) # ""
        THEN [ suitable |-> FALSE,
               reasoning |-> "Unable to assess suitability due to insufficient data",
               warnings |-> << "Suitability assessment failed - manual review required" >> ]
        ELSE [ suitable |-> suitable,
               suitability_score |-> Min2(client_risk_score, risk_score.n),
               reasoning |-> IF suitable THEN "aligns with client's risk profile"
                             ELSE "exceeds client's risk tolerance",
               warnings |-> SuitabilityWarnings(investment_data),
               client_risk_tolerance |-> client_risk_tolerance,
               investment_risk_level |-> risk_score.n ]

(***************************************************************************)
(* ComplianceAgent.                                                        *)
(***************************************************************************)
\* ComplianceAgent._get_client_risk_profile
_get_client_risk_profile(client_id) ==
    [ client_id |-> client_id,
      risk_tolerance |-> "moderate",
      investment_experience |-> "intermediate",
      time_horizon |-> "long_term",
      liquidity_needs |-> "low" ]

\* ComplianceAgent._check_time_horizon_compatibility
_check_time_horizon_compatibility(client_horizon, investment_horizon) ==
    LET compatible_horizons ==
            CASE client_horizon = "short_term" -> {"short_term"}
              [] client_horizon = "medium_term" -> {"short_term", "medium_term"}
              [] client_horizon = "long_term" -> {"short_term", "medium_term", "long_term"}
              [] OTHER -> {}
    IN  investment_horizon \in compatible_horizons

\* ComplianceAgent._check_liquidity_suitability
_check_liquidity_suitability(client_needs, investment_liquidity) ==
    LET investment_liquidity_score ==
            CASE investment_liquidity = "Low" -> 1
              [] investment_liquidity = "Moderate" -> 2
              [] investment_liquidity = "High" -> 3
              [] OTHER -> 2
        client_need_score ==
            CASE client_needs = "high" -> 3
              [] client_needs = "moderate" -> 2
              [] client_needs = "low" -> 1
              [] OTHER -> 2
    IN  investment_liquidity_score >= client_need_score

\* keyword in description.lower(), for the descriptions of the model
DescriptionHas(description, keywords) ==
    \/ description = "Covered call option fund" /\ "option" \in keywords
    \/ description = "Blue chip index ETF" /\ keywords \cap {"etf", "index", "blue chip"} # {}

\* ComplianceAgent._assess_investment_complexity
_assess_investment_complexity(investment_data) ==
    LET description == DictGet(investment_data, "description", "")
    IN  IF DescriptionHas(description, {"derivative", "option", "complex"}) THEN "high"
        ELSE IF DescriptionHas(description, {"etf", "index", "blue chip"}) THEN "low"
        ELSE "moderate"

\* ComplianceAgent._check_experience_suitability
_check_experience_suitability(client_experience, investment_complexity) ==
    LET client_level ==
            CASE client_experience = "beginner" -> 1
              [] client_experience = "intermediate" -> 2
              [] client_experience = "advanced" -> 3
              [] OTHER -> 2
        required_level ==
            CASE investment_complexity = "low" -> 1
              [] investment_complexity = "moderate" -> 2
              [] investment_complexity = "high" -> 3
              [] OTHER -> 2
    IN  client_level >= required_level

\* the exception raised inside _perform_suitability_checks: the tier has no
\* rules (KeyError), or risk_score or beta is not a number (TypeError)
SuitabilityChecksRaises(rules, investment_data, risk_assessment, client_profile) ==
    IF DictGet(client_profile, "risk_tolerance", "moderate") \notin DOMAIN rules.suitability
    THEN "KeyError"
    ELSE IF ~IsNum(DictGet(risk_assessment, "risk_score", Num(5))) THEN "TypeError"
    ELSE IF ~IsNum(DictGet(DictGet(investment_data, "financial_metrics", <<>>), "beta", Num(100)))
    THEN "TypeError"
    ELSE ""

\* the order in which the checks are inserted into the dict
SuitabilityCheckNames ==
    << "risk_score_suitable", "volatility_suitable", "time_horizon_suitable",
       "liquidity_suitable", "experience_suitable" >>

\* ComplianceAgent._perform_suitability_checks
_perform_suitability_checks(rules, investment_data, risk_assessment, client_profile) ==
    IF SuitabilityChecksRaises(rules, investment_data, risk_assessment, client_profile) # ""
    THEN [error |-> SuitabilityChecksRaises(rules, investment_data, risk_assessment, client_profile)]
    ELSE LET tier == rules.suitability[DictGet(client_profile, "risk_tolerance", "moderate")]
             investment_risk_score == DictGet(risk_assessment, "risk_score", Num(5)).n
             investment_beta ==
                 DictGet(DictGet(investment_data, "financial_metrics", <<>>), "beta", Num(100)).n
             client_time_horizon == DictGet(client_profile, "time_horizon", "medium_term")
             recommended_time_horizon ==
                 DictGet(DictGet(investment_data, "recommendation", <<>>),
                         "time_horizon", "medium_term")
             client_liquidity_needs == DictGet(client_profile, "liquidity_needs", "moderate")
             investment_liquidity ==
                 DictGet(DictGet(risk_assessment, "quantitative_metrics", <<>>),
                         "liquidity_risk", "Moderate")
             client_experience == DictGet(client_profile, "investment_experience", "intermediate")
             investment_complexity == _assess_investment_complexity(investment_data)
         IN  [ risk_score_suitable |->
                 [ passed |-> investment_risk_score <= tier.max_risk_score,
                   investment_risk |-> investment_risk_score,
                   client_max_risk |-> tier.max_risk_score ],
               volatility_suitable |->
                 [ passed |-> investment_beta <= tier.max_volatility,
                   investment_beta |-> investment_beta,
                   client_max_volatility |-> tier.max_volatility ],
               time_horizon_suitable |->
                 [ passed |-> _check_time_horizon_compatibility(client_time_horizon,
                                                                recommended_time_horizon),
                   client_horizon |-> client_time_horizon,
                   investment_horizon |-> recommended_time_horizon ],
               liquidity_suitable |->
                 [ passed |-> _check_liquidity_suitability(client_liquidity_needs,
                                                           investment_liquidity),
                   client_liquidity_needs |-> client_liquidity_needs,
                   investment_liquidity |-> investment_liquidity ],
               experience_suitable |->
                 [ passed |-> _check_experience_suitability(client_experience,
                                                            investment_complexity),
                   client_experience |-> client_experience,
                   investment_complexity |-> investment_complexity ] ]

ConcentrationCheckNames ==
    << "single_security", "sector_concentration", "asset_class_concentration" >>

\* variant: a sector exposure of 40% in place of the literal 25%
_check_concentration_limits_overweight(rules, client_id, investment_data) ==
    LET limits == rules.concentration_limits
    IN  [ single_security |->
            [ passed |-> 15 <= limits.single_security,
              current_percentage |-> 15, limit |-> limits.single_security ],
          sector_concentration |->
            [ passed |-> 40 <= limits.sector,
              current_percentage |-> 40, limit |-> limits.sector ],
          asset_class_concentration |->
            [ passed |-> 75 <= limits.asset_class,
              current_percentage |-> 75, limit |-> limits.asset_class ] ]

\* ComplianceAgent._check_concentration_limits: the current percentages are
\* the literals 0.15, 0.25 and 0.75 of the code
_check_concentration_limits(rules, client_id, investment_data) ==
    LET limits == rules.concentration_limits
    IN  [ single_security |->
            [ passed |-> 15 <= limits.single_security,
              current_percentage |-> 15, limit |-> limits.single_security ],
          sector_concentration |->
            [ passed |-> 25 <= limits.sector,
              current_percentage |-> 25, limit |-> limits.sector ],
          asset_class_concentration |->
            [ passed |-> 75 <= limits.asset_class,
              current_percentage |-> 75, limit |-> limits.asset_class ] ]

\* variant: the client's acknowledgment taken as collected
DocumentPresentAcknowledged(requirement, investment_data, risk_assessment) ==
    CASE requirement = "investment_rationale" ->
           Truthy(DictGet(DictGet(investment_data, "recommendation", <<>>), "rationale", PyNone))
      [] requirement = "risk_assessment" ->
           Truthy(DictGet(risk_assessment, "risk_score", PyNone))
      [] requirement = "suitability_analysis" -> TRUE
      [] requirement = "client_acknowledgment" -> TRUE
      [] OTHER -> FALSE

\* whether one documentation requirement is met
DocumentPresent(requirement, investment_data, risk_assessment) ==
    CASE requirement = "investment_rationale" ->
           Truthy(DictGet(DictGet(investment_data, "recommendation", <<>>), "rationale", PyNone))
      [] requirement = "risk_assessment" ->
           Truthy(DictGet(risk_assessment, "risk_score", PyNone))
      [] requirement = "suitability_analysis" -> TRUE
      [] requirement = "client_acknowledgment" -> FALSE
      [] OTHER -> FALSE

\* ComplianceAgent._verify_documentation_requirements
_verify_documentation_requirements(rules, investment_data, risk_assessment) ==
    LET required_docs == rules.documentation_requirements
        present(i) == DocumentPresent(required_docs[i], investment_data, risk_assessment)
    IN  [ all_required_present |-> \A i \in 1..Len(required_docs) : present(i),
          documentation_details |->
              [r \in {required_docs[i] : i \in 1..Len(required_docs)} |->
                  DocumentPresent(r, investment_data, risk_assessment)],
          missing_documents |->
              SelectSeq(required_docs,
                        LAMBDA r : ~DocumentPresent(r, investment_data, risk_assessment)) ]

\* the entries of a checks dict that fail: isinstance(check_result, dict) and
\* not check_result.get('passed', True); the value under 'error' is a string
FailedChecks(checks, names) ==
    SelectSeq(names, LAMBDA k : /\ k \in DOMAIN checks
                                /\ ~DictGet(checks[k], "passed", TRUE))

\* ComplianceAgent._generate_compliance_recommendations
_generate_compliance_recommendations(suitability_checks, concentration_analysis, documentation_check) ==
    LET r1 == [i \in 1..Len(FailedChecks(suitability_checks, SuitabilityCheckNames)) |->
                 [ kind |-> "SUITABILITY CONCERN",
                   about |-> << FailedChecks(suitability_checks, SuitabilityCheckNames)[i] >> ]]
        r2 == [i \in 1..Len(FailedChecks(concentration_analysis, ConcentrationCheckNames)) |->
                 [ kind |-> "CONCENTRATION LIMIT EXCEEDED",
                   about |-> << FailedChecks(concentration_analysis, ConcentrationCheckNames)[i] >> ]]
        r3 == IF ~DictGet(documentation_check, "all_required_present", TRUE)
              THEN << [ kind |-> "MISSING DOCUMENTATION",
                        about |-> DictGet(documentation_check, "missing_documents", <<>>) ] >>
              ELSE <<>>
        recommendations == r1 \o r2 \o r3
    IN  IF recommendations = <<>>
        THEN << [kind |-> "All compliance checks passed", about |-> <<>>],
                [kind |-> "Ensure client acknowledgment is obtained before execution", about |-> <<>>],
                [kind |-> "Schedule follow-up review in 30 days", about |-> <<>>] >>
        ELSE << [kind |-> "COMPLIANCE REVIEW REQUIRED before proceeding", about |-> <<>>] >>
                \o recommendations

\* all(check.get('passed', False) if isinstance(check, dict) else True
\*     for check in checks.values())
AllChecksPassed(checks) ==
    \A k \in DOMAIN checks :
        IF k = "error" THEN TRUE ELSE DictGet(checks[k], "passed", FALSE)

\* variant: the verdict also gated on complete documentation
_determine_overall_suitability_documented(suitability_checks, concentration_analysis, documentation_check) ==
    LET suitability_passed == AllChecksPassed(suitability_checks)
        concentration_passed == AllChecksPassed(concentration_analysis)
        documentation_passed == DictGet(documentation_check, "all_required_present", FALSE)
    IN  suitability_passed /\ concentration_passed /\ documentation_passed

\* ComplianceAgent._determine_overall_suitability
_determine_overall_suitability(suitability_checks, concentration_analysis, documentation_check) ==
    LET suitability_passed == AllChecksPassed(suitability_checks)
        concentration_passed == AllChecksPassed(concentration_analysis)
        documentation_passed == DictGet(documentation_check, "all_required_present", FALSE)
    IN  suitability_passed /\ concentration_passed

\* ComplianceAgent._get_required_disclosures, the two conditional entries
_get_required_disclosures(investment_data) ==
    (IF DictGet(investment_data, "risk_score", Num(5)).n >= 7
     THEN << "HIGH RISK: Investment carries elevated risk of loss" >> ELSE <<>>)
    \o
    (IF DictGet(DictGet(investment_data, "company_info", <<>>), "sector", "") = "Technology"
     THEN << "Technology sector investments may be subject to rapid changes and volatility" >>
     ELSE <<>>)

\* the exception that reaches the except clause of
\* verify_investment_suitability: _get_required_disclosures compares
\* investment_data's risk_score outside any inner try
VerifySuitabilityRaises(investment_data) ==
    CompareRaises(DictGet(investment_data, "risk_score", Num(5)))

\* the dict ComplianceAgent.verify_investment_suitability returns
SuitabilityVerification(rules, advisor_id, client_id, investment_data, risk_assessment, now) ==
    IF VerifySuitabilityRaises(investment_data) # ""
    THEN [ error |-> "Suitability verification failed",
           message |-> VerifySuitabilityRaises(investment_data),
           overall_suitable |-> FALSE,
           requires_manual_review |-> TRUE ]
    ELSE LET client_profile == _get_client_risk_profile(client_id)
             suitability_checks ==
                 _perform_suitability_checks(rules, investment_data, risk_assessment, client_profile)
             concentration_analysis ==
                 _check_concentration_limits(rules, client_id, investment_data)
             documentation_check ==
                 _verify_documentation_requirements(rules, investment_data, risk_assessment)
         IN  [ advisor_id |-> advisor_id,
               client_id |-> client_id,
               analysis_timestamp |-> now,
               investment_ticker |-> DictGet(investment_data, "ticker", "Unknown"),
               overall_suitable |->
                   _determine_overall_suitability(suitability_checks, concentration_analysis,
                                                  documentation_check),
               suitability_checks |-> suitability_checks,
               concentration_analysis |-> concentration_analysis,
               documentation_status |-> documentation_check,
               compliance_recommendations |->
                   _generate_compliance_recommendations(suitability_checks,
                                                        concentration_analysis,
                                                        documentation_check),
               required_disclosures |-> _get_required_disclosures(investment_data) ]

(***************************************************************************)
(* RiskAssessmentAgent: the per-instrument risk metrics.  A stock_data     *)
(* dict has the optional keys beta, debt_to_equity (hundredths), sector,   *)
(* market_cap (billions), pe_ratio, price_to_book, profit_margin, roe      *)
(* (hundredths) and latest_price; stock_data may also be None.             *)
(***************************************************************************)
IsDict(x) == "t" \notin DOMAIN x

\* the keys of sector_multipliers, in the dict's order, with the multiplier
\* in tenths
sector_multipliers ==
    << [key |-> "technology", mult |-> 13],
       [key |-> "energy", mult |-> 14],
       [key |-> "financial", mult |-> 12],
       [key |-> "healthcare", mult |-> 9],
       [key |-> "utilities", mult |-> 7],
       [key |-> "consumer staples", mult |-> 8] >>

\* sector_key in sector.lower(), for the sector names of the model
KeyInSector(sector_key, sector) ==
    CASE sector = "Technology" -> sector_key = "technology"
      [] sector = "ENERGY" -> sector_key = "energy"
      [] sector = "Energy" -> sector_key = "energy"
      [] sector = "Financial Services" -> sector_key = "financial"
      [] sector = "Healthcare" -> sector_key = "healthcare"
      [] sector = "Healthcare Technology" -> sector_key \in {"healthcare", "technology"}
      [] sector = "Utilities" -> sector_key = "utilities"
      [] sector = "Consumer Staples" -> sector_key = "consumer staples"
      [] sector = "technology" -> sector_key = "technology"
      [] sector = "Energy Utilities" -> sector_key \in {"energy", "utilities"}
      [] sector = "Financial Technology" -> sector_key \in {"financial", "technology"}
      [] OTHER -> FALSE

\* variant: the loop without its break, the last key found wins
SectorMultiplierLastHit(sector) ==
    LET hits == SelectSeq(sector_multipliers, LAMBDA e : KeyInSector(e.key, sector))
    IN  IF hits = <<>> THEN 10 ELSE hits[Len(hits)].mult

\* the multiplier of the first key found in the sector name, 1.0 if none
SectorMultiplier(sector) ==
    LET hits == SelectSeq(sector_multipliers, LAMBDA e : KeyInSector(e.key, sector))
    IN  IF hits = <<>> THEN 10 ELSE hits[1].mult

\* RiskAssessmentAgent._calculate_volatility_indicator, hundredths.  The
\* sector of a stock_data dict is a tagged value: a name is [t |-> "str"]
\* with the name under "name", None has no lower()
_calculate_volatility_indicator(stock_data) ==
    LET beta == DictGet(stock_data, "beta", Num(100))
        sector == DictGet(stock_data, "sector", [t |-> "str", n |-> 0, name |-> ""])
    IN  IF sector.t # "str" THEN 100
        ELSE IF ~IsNum(beta) THEN 100
        ELSE RoundDiv(beta.n * SectorMultiplier(sector.name), 10)

\* RiskAssessmentAgent._assess_liquidity_risk
_assess_liquidity_risk(stock_data) ==
    LET market_cap == DictGet(stock_data, "market_cap", Num(0))
    IN  IF ~IsNum(market_cap) THEN "Moderate"
        ELSE IF market_cap.n > 10 THEN "Low"
        ELSE IF market_cap.n > 2 THEN "Moderate"
        ELSE "High"

\* x and x > bound: a falsy x skips the comparison, a string raises in it
AndGreater(x, bound) == Truthy(x) /\ x.n > bound
AndLess(x, bound) == Truthy(x) /\ x.n < bound

\* RiskAssessmentAgent._assess_valuation_risk
_assess_valuation_risk(stock_data) ==
    LET pe_ratio == DictGet(stock_data, "pe_ratio", Num(0))
        pb_ratio == DictGet(stock_data, "price_to_book", Num(0))
    IN  IF pe_ratio.t = "str" THEN "Moderate"
        ELSE IF AndGreater(pe_ratio, 30) THEN "High"
        ELSE IF pb_ratio.t = "str" THEN "Moderate"
        ELSE IF AndGreater(pb_ratio, 5) THEN "High"
        ELSE IF AndLess(pe_ratio, 15) THEN "Low"
        ELSE "Moderate"

\* RiskAssessmentAgent._assess_profitability_stability
_assess_profitability_stability(stock_data) ==
    LET profit_margin == DictGet(stock_data, "profit_margin", Num(0))
        roe == DictGet(stock_data, "roe", Num(0))
    IN  IF profit_margin.t = "str" THEN "Moderate"
        ELSE IF AndGreater(profit_margin, 15) /\ roe.t = "str" THEN "Moderate"
        ELSE IF AndGreater(profit_margin, 15) /\ AndGreater(roe, 15) THEN "Stable"
        ELSE IF AndGreater(profit_margin, 5) THEN "Moderate"
        ELSE "Unstable"

\* RiskAssessmentAgent._calculate_quantitative_risks
_calculate_quantitative_risks(stock_data) ==
    IF ~IsDict(stock_data)
    THEN [beta |-> Num(100), error |-> "AttributeError"]
    ELSE [ beta |-> DictGet(stock_data, "beta", Num(100)),
           volatility_indicator |-> _calculate_volatility_indicator(stock_data),
           financial_leverage |-> DictGet(stock_data, "debt_to_equity", Num(0)),
           liquidity_risk |-> _assess_liquidity_risk(stock_data),
           valuation_risk |-> _assess_valuation_risk(stock_data),
           profitability_stability |-> _assess_profitability_stability(stock_data) ]

\* a Python list under a dict key that may also hold None
PyList(items) == [t |-> "list", n |-> 0, items |-> items]

\* variant: the common risk categories given the severity High
_assess_qualitative_risks_severe(research_data) ==
    LET risk_factors == DictGet(research_data, "risk_factors", PyList(<<>>))
        listed == IF risk_factors.t = "list" THEN risk_factors.items ELSE <<>>
        business == [i \in 1..Len(listed) |->
                        [ category |-> "Business Risk", description |-> listed[i],
                          severity |-> "Medium", likelihood |-> "Medium" ]]
        common == << [ category |-> "Market Risk",
                       description |-> "Exposure to overall market volatility and economic cycles",
                       severity |-> "High", likelihood |-> "High" ],
                     [ category |-> "Sector Risk",
                       description |-> "Risks specific to the company's industry sector",
                       severity |-> "High", likelihood |-> "Medium" ],
                     [ category |-> "Company-Specific Risk",
                       description |-> "Risks unique to the individual company's operations",
                       severity |-> "High", likelihood |-> "Medium" ] >>
    IN  IF risk_factors.t # "list"
        THEN << [category |-> "Assessment Error", description |-> "TypeError"] >>
        ELSE Take(business \o common, 8)

\* RiskAssessmentAgent._assess_qualitative_risks: research_data may hold a
\* list under risk_factors; iterating over None raises TypeError
_assess_qualitative_risks(research_data) ==
    LET risk_factors == DictGet(research_data, "risk_factors", PyList(<<>>))
        listed == IF risk_factors.t = "list" THEN risk_factors.items ELSE <<>>
        business == [i \in 1..Len(listed) |->
                        [ category |-> "Business Risk", description |-> listed[i],
                          severity |-> "Medium", likelihood |-> "Medium" ]]
        common == << [ category |-> "Market Risk",
                       description |-> "Exposure to overall market volatility and economic cycles",
                       severity |-> "Medium", likelihood |-> "High" ],
                     [ category |-> "Sector Risk",
                       description |-> "Risks specific to the company's industry sector",
                       severity |-> "Medium", likelihood |-> "Medium" ],
                     [ category |-> "Company-Specific Risk",
                       description |-> "Risks unique to the individual company's operations",
                       severity |-> "Medium", likelihood |-> "Medium" ] >>
    IN  IF risk_factors.t # "list"
        THEN << [category |-> "Assessment Error", description |-> "TypeError"] >>
        ELSE Take(business \o common, 8)

\* r.get('severity', '').lower() == 'high'
SeverityIsHigh(r) == DictGet(r, "severity", "") \in {"High", "high", "HIGH"}

HighRiskCount(qualitative) == Len(SelectSeq(qualitative, SeverityIsHigh))

\* variant: the score returned without the clamp to 1..10
_calculate_overall_risk_score_unclamped(quantitative, qualitative) ==
    LET beta == DictGet(quantitative, "beta", Num(100))
        debt_to_equity == DictGet(quantitative, "financial_leverage", Num(0))
        s1 == IF beta.n > 150 THEN 10 + 4
              ELSE IF beta.n > 120 THEN 10 + 2
              ELSE IF beta.n < 80 THEN 10 - 2
              ELSE 10
        s2 == IF debt_to_equity.n > 100 THEN s1 + 2
              ELSE IF debt_to_equity.n > 50 THEN s1 + 1
              ELSE s1
        score2 == s2 + HighRiskCount(qualitative)
    IN  IF ~IsNum(beta) \/ ~IsNum(debt_to_equity) THEN 5
        ELSE score2 \div 2

\* RiskAssessmentAgent._calculate_overall_risk_score.  score2 is twice the
\* score of the code; int() truncates the half
_calculate_overall_risk_score(quantitative, qualitative) ==
    LET beta == DictGet(quantitative, "beta", Num(100))
        debt_to_equity == DictGet(quantitative, "financial_leverage", Num(0))
        s1 == IF beta.n > 150 THEN 10 + 4
              ELSE IF beta.n > 120 THEN 10 + 2
              ELSE IF beta.n < 80 THEN 10 - 2
              ELSE 10
        s2 == IF debt_to_equity.n > 100 THEN s1 + 2
              ELSE IF debt_to_equity.n > 50 THEN s1 + 1
              ELSE s1
        score2 == s2 + HighRiskCount(qualitative)
    IN  IF ~IsNum(beta) \/ ~IsNum(debt_to_equity) THEN 5
        ELSE Max2(1, Min2(10, score2 \div 2))

\* RiskAssessmentAgent._determine_risk_level
_determine_risk_level(risk_score) ==
    IF risk_score <= 3 THEN "Low"
    ELSE IF risk_score <= 6 THEN "Moderate"
    ELSE IF risk_score <= 8 THEN "High"
    ELSE "Very High"

\* variant: the volatility capped at 1.0
_calculate_var_analysis_capped(stock_data, quantitative_risks) ==
    LET current_price == DictGet(stock_data, "latest_price", Num(100))
        volatility == Min2(100, DictGet(quantitative_risks, "volatility_indicator", 100))
    IN  IF ~IsNum(current_price) THEN [error |-> "TypeError"]
        ELSE IF current_price.n = 0 THEN [error |-> "ZeroDivisionError"]
        ELSE [ var_95_1_day |-> RoundDiv(current_price.n * 264 * volatility, 10000),
               var_95_1_day_percent |-> RoundDiv(264 * volatility, 100),
               confidence_level |-> "95%" ]

\* RiskAssessmentAgent._calculate_var_analysis:
\* var_95_1day = current_price * 0.016 * volatility * 1.65, in hundredths.
\* var_95_10_day (var_95_1day * sqrt(10)) is not carried: it is irrational.
_calculate_var_analysis(stock_data, quantitative_risks) ==
    LET current_price == DictGet(stock_data, "latest_price", Num(100))
        volatility == DictGet(quantitative_risks, "volatility_indicator", 100)
    IN  IF ~IsNum(current_price) THEN [error |-> "TypeError"]
        ELSE IF current_price.n = 0 THEN [error |-> "ZeroDivisionError"]
        ELSE [ var_95_1_day |-> RoundDiv(current_price.n * 264 * volatility, 10000),
               var_95_1_day_percent |-> RoundDiv(264 * volatility, 100),
               confidence_level |-> "95%" ]

\* one stress scenario; stock_impact is in hundredths of a percent
StressScenario(current_price, market_impact, stock_impact) ==
    [ market_impact |-> market_impact,
      stock_impact |-> stock_impact,
      projected_price |-> RoundDiv(current_price * (10000 + stock_impact), 100),
      dollar_loss |-> RoundDiv(current_price * (0 - stock_impact), 100) ]

StressScenarioNames ==
    << "market_crash_20", "sector_decline_15", "interest_rate_shock", "recession_scenario" >>

\* variant: the interest rate shock without its cap on beta
_perform_stress_tests_uncapped(stock_data) ==
    LET current_price == DictGet(stock_data, "latest_price", Num(100))
        beta == DictGet(stock_data, "beta", Num(100))
    IN  IF ~IsNum(beta) \/ ~IsNum(current_price) THEN [error |-> "TypeError"]
        ELSE [ scenarios |->
                 [ market_crash_20 |->
                       StressScenario(current_price.n, -20, (0 - 20) * beta.n),
                   sector_decline_15 |->
                       StressScenario(current_price.n, -5, (0 - 15) * 100),
                   interest_rate_shock |->
                       StressScenario(current_price.n, -10, (0 - 10) * beta.n),
                   recession_scenario |->
                       StressScenario(current_price.n, -30, (0 - 30) * beta.n) ],
               current_price |-> current_price.n ]

\* variant: the recession impact capped at a beta of 0.5
_perform_stress_tests_capped(stock_data) ==
    LET current_price == DictGet(stock_data, "latest_price", Num(100))
        beta == DictGet(stock_data, "beta", Num(100))
    IN  IF ~IsNum(beta) \/ ~IsNum(current_price) THEN [error |-> "TypeError"]
        ELSE [ scenarios |->
                 [ market_crash_20 |->
                       StressScenario(current_price.n, -20, (0 - 20) * beta.n),
                   sector_decline_15 |->
                       StressScenario(current_price.n, -5, (0 - 15) * 100),
                   interest_rate_shock |->
                       StressScenario(current_price.n, -10, (0 - 10) * Min2(beta.n, 150)),
                   recession_scenario |->
                       StressScenario(current_price.n, -30, (0 - 30) * Min2(beta.n, 50)) ],
               current_price |-> current_price.n ]

\* RiskAssessmentAgent._perform_stress_tests
_perform_stress_tests(stock_data) ==
    LET current_price == DictGet(stock_data, "latest_price", Num(100))
        beta == DictGet(stock_data, "beta", Num(100))
    IN  IF ~IsNum(beta) \/ ~IsNum(current_price) THEN [error |-> "TypeError"]
        ELSE [ scenarios |->
                 [ market_crash_20 |->
                       StressScenario(current_price.n, -20, (0 - 20) * beta.n),
                   sector_decline_15 |->
                       StressScenario(current_price.n, -5, (0 - 15) * 100),
                   interest_rate_shock |->
                       StressScenario(current_price.n, -10, (0 - 10) * Min2(beta.n, 150)),
                   recession_scenario |->
                       StressScenario(current_price.n, -30, (0 - 30) * beta.n) ],
               current_price |-> current_price.n ]

DiversificationBenefit(beta) ==
    IF beta < 80 THEN "High" ELSE IF beta < 120 THEN "Moderate" ELSE "Low"

\* RiskAssessmentAgent._analyze_correlations: sector_correlations is the
\* matrix's own row for the sector, {} for a sector the matrix lacks
_analyze_correlations(matrix, stock_data) ==
    LET sector == DictGet(stock_data, "sector", [t |-> "str", n |-> 0, name |-> "Unknown"])
        beta == DictGet(stock_data, "beta", Num(100))
        row == IF sector.t = "str" /\ SectorKey(sector.name) \in DOMAIN matrix
               THEN matrix[SectorKey(sector.name)] ELSE <<>>
    IN  IF ~IsNum(beta) THEN [error |-> "TypeError"]
        ELSE [ market_correlation |-> beta.n,
               sector |-> sector,
               sector_correlations |-> row,
               diversification_benefit |-> DiversificationBenefit(beta.n) ]

\* RiskAssessmentAgent._suggest_risk_mitigation
_suggest_risk_mitigation(risk_score, qualitative_risks) ==
    LET base == IF risk_score >= 8
                THEN << "Consider reducing position size due to high risk level",
                        "Implement strict stop-loss orders",
                        "Monitor investment closely with daily check-ins" >>
                ELSE IF risk_score >= 6
                THEN << "Maintain moderate position sizing",
                        "Set trailing stop-loss orders",
                        "Review investment monthly" >>
                ELSE << "Standard position sizing acceptable",
                        "Monitor quarterly earnings and key metrics",
                        "Review investment quarterly" >>
        has(category) == \E i \in 1..Len(qualitative_risks) :
                            DictGet(qualitative_risks[i], "category", "") = category
    IN  Take(base
             \o (IF has("Market Risk")
                 THEN << "Consider hedging against market downturns" >> ELSE <<>>)
             \o (IF has("Sector Risk")
                 THEN << "Diversify across multiple sectors" >> ELSE <<>>), 5)

\* the exception that reaches the except clause of assess_investment_risk:
\* the data store has no row for the ticker
AssessInvestmentRiskRaises(stock_data) ==
    IF ~IsDict(stock_data) THEN "ValueError" ELSE ""

\* variant: a risk score that drifts with the clock
RiskAssessmentDrifting(matrix, ticker, stock_data, research_data, client_risk_profile, now) ==
    IF AssessInvestmentRiskRaises(stock_data) # ""
    THEN [ ticker |-> ticker,
           error |-> "Risk assessment failed",
           message |-> AssessInvestmentRiskRaises(stock_data),
           risk_score |-> 5,
           risk_level |-> "unknown" ]
    ELSE LET quantitative_risks == _calculate_quantitative_risks(stock_data)
             qualitative_risks == _assess_qualitative_risks(research_data)
             risk_score ==
                 Min2(10, _calculate_overall_risk_score(quantitative_risks, qualitative_risks) + now)
         IN  [ ticker |-> ticker,
               risk_score |-> risk_score,
               risk_level |-> _determine_risk_level(risk_score),
               quantitative_metrics |-> quantitative_risks,
               qualitative_factors |-> qualitative_risks,
               var_analysis |-> _calculate_var_analysis(stock_data, quantitative_risks),
               stress_tests |-> _perform_stress_tests(stock_data),
               correlation_analysis |-> _analyze_correlations(matrix, stock_data),
               suitability_assessment |->
                   _assess_investment_suitability([risk_score |-> Num(risk_score)],
                                                  [risk_tolerance |-> client_risk_profile]),
               risk_mitigation |-> _suggest_risk_mitigation(risk_score, qualitative_risks),
               assessment_timestamp |-> now ]

\* the dict RiskAssessmentAgent.assess_investment_risk returns; stock_data is
\* what financial_db.get_stock_data(ticker) gave (the generated narrative,
\* ai_analysis, is left out: it is free text)
RiskAssessment(matrix, ticker, stock_data, research_data, client_risk_profile, now) ==
    IF AssessInvestmentRiskRaises(stock_data) # ""
    THEN [ ticker |-> ticker,
           error |-> "Risk assessment failed",
           message |-> AssessInvestmentRiskRaises(stock_data),
           risk_score |-> 5,
           risk_level |-> "unknown" ]
    ELSE LET quantitative_risks == _calculate_quantitative_risks(stock_data)
             qualitative_risks == _assess_qualitative_risks(research_data)
             risk_score == _calculate_overall_risk_score(quantitative_risks, qualitative_risks)
         IN  [ ticker |-> ticker,
               risk_score |-> risk_score,
               risk_level |-> _determine_risk_level(risk_score),
               quantitative_metrics |-> quantitative_risks,
               qualitative_factors |-> qualitative_risks,
               var_analysis |-> _calculate_var_analysis(stock_data, quantitative_risks),
               stress_tests |-> _perform_stress_tests(stock_data),
               correlation_analysis |-> _analyze_correlations(matrix, stock_data),
               suitability_assessment |->
                   _assess_investment_suitability([risk_score |-> Num(risk_score)],
                                                  [risk_tolerance |-> client_risk_profile]),
               risk_mitigation |-> _suggest_risk_mitigation(risk_score, qualitative_risks),
               assessment_timestamp |-> now ]

(***************************************************************************)
(* Inputs.                                                                 *)
(***************************************************************************)
\* in a set of choices: the key is left out of the dict
Absent == [t |-> "absent", n |-> 0]

\* the dict with the keys of r whose choice is not Absent
Dict(r) == [k \in {x \in DOMAIN r : r[x].t # "absent"} |-> r[k]]

SectorName(name) == [t |-> "str", n |-> 0, name |-> name]

\* what a holding says about the instrument: every fundamental present,
\* fundamentals absent, and fundamentals present with the value None
HoldingKinds ==
    { [sector |-> "Technology", beta |-> Num(150), pe_ratio |-> Num(30), debt_to_equity |-> Num(100)],
      [sector |-> "Energy", beta |-> Num(50)],
      [sector |-> "Technology", beta |-> PyNone, pe_ratio |-> Num(30), debt_to_equity |-> Num(100)],
      [pe_ratio |-> PyNone, debt_to_equity |-> PyNone] }

WithValue(kind, value) ==
    [k \in DOMAIN kind \cup {"value"} |-> IF k = "value" THEN value ELSE kind[k]]

HoldingDomain ==
    { WithValue(kind, Num(v)) : kind \in HoldingKinds, v \in 0..MaxValue }
       \cup { [sector |-> "Energy", beta |-> Num(50), value |-> PyNone],
              [sector |-> "Energy", beta |-> Num(50)] }

HoldingLists == UNION { [1..n -> HoldingDomain] : n \in 0..MaxHoldings }

RiskScoreChoices == {Absent, PyNone, PyStr} \cup {Num(n) : n \in 0..MaxRiskScore}

BetaChoices == {Absent, PyNone, Num(50), Num(120), Num(130), Num(160)}

\* stock_data for the metrics calculator: each fundamental a number, None or absent
StockDomain ==
    { Dict([ beta |-> b, sector |-> s, debt_to_equity |-> d, market_cap |-> m,
             pe_ratio |-> pe, price_to_book |-> pb, profit_margin |-> pm, roe |-> roe ]) :
        b \in {Absent, PyNone, Num(50), Num(160)},
        s \in {Absent, PyNone, SectorName("Technology"), SectorName("Healthcare Technology"),
               SectorName("Consumer Discretionary")},
        d \in {Absent, PyNone, Num(70), Num(150)},
        m \in {Absent, PyNone, Num(5), Num(50)},
        pe \in {Absent, PyNone, Num(10), Num(40)},
        pb \in {Absent, PyNone, Num(6)},
        pm \in {Absent, Num(10), Num(20)},
        roe \in {Absent, Num(20)} }
      \cup {PyNone}

\* rows of the data store: every column is present, a NULL column is None;
\* latest_price is there when the instrument has market data
StockRows ==
    { [ sector |-> SectorName("Technology"), beta |-> Num(120), debt_to_equity |-> Num(40),
        market_cap |-> Num(50), pe_ratio |-> Num(25), price_to_book |-> Num(6),
        profit_margin |-> Num(20), roe |-> Num(20), latest_price |-> Num(100) ],
      [ sector |-> SectorName("ENERGY"), beta |-> Num(160), debt_to_equity |-> Num(150),
        market_cap |-> Num(5), pe_ratio |-> Num(40), price_to_book |-> Num(2),
        profit_margin |-> Num(3), roe |-> Num(5), latest_price |-> Num(50) ],
      [ sector |-> SectorName("Utilities"), beta |-> Num(50), debt_to_equity |-> Num(70),
        market_cap |-> Num(1), pe_ratio |-> Num(10), price_to_book |-> Num(1),
        profit_margin |-> Num(10), roe |-> Num(10) ],
      [ sector |-> SectorName("Healthcare"), beta |-> Num(130), debt_to_equity |-> PyNone,
        market_cap |-> Num(50), pe_ratio |-> PyNone, price_to_book |-> Num(6),
        profit_margin |-> Num(20), roe |-> PyNone, latest_price |-> Num(0) ],
      [ sector |-> PyNone, beta |-> PyNone, debt_to_equity |-> PyNone,
        market_cap |-> PyNone, pe_ratio |-> PyNone, price_to_book |-> PyNone,
        profit_margin |-> PyNone, roe |-> PyNone, latest_price |-> PyNone ],
      PyNone }

ResearchDomain ==
    { Dict([risk_factors |-> f]) :
        f \in {Absent, PyNone}
              \cup { PyList([i \in 1..k |-> "risk factor"]) : k \in 0..MaxRiskFactors } }

TierChoices == {"conservative", "moderate", "aggressive", "platinum"}

\* investment_data as the research step hands it to the compliance check
InvestmentDomain ==
    { [k \in ({"financial_metrics", "description"}
                \cup (IF rec = Absent THEN {} ELSE {"recommendation"})
                \cup (IF rs = Absent THEN {} ELSE {"risk_score"})) |->
          CASE k = "financial_metrics" -> Dict([beta |-> b])
            [] k = "description" -> desc
            [] k = "recommendation" -> rec
            [] k = "risk_score" -> rs] :
        b \in {Absent, PyNone, Num(100), Num(150), Num(160)},
        desc \in {"", "Covered call option fund", "Blue chip index ETF"},
        rec \in { Absent,
                  [rationale |-> PyStr, time_horizon |-> "long_term"],
                  [rationale |-> PyStr, time_horizon |-> "Unknown"],
                  [rationale |-> PyNone, time_horizon |-> "short_term"],
                  [time_horizon |-> "medium_term"] },
        rs \in {Absent, PyNone, Num(7)} }

LiquidityChoices == {"", "Low", "Moderate", "High"}

\* risk_assessment as the risk step hands it to the compliance check
RiskAssessmentDomain ==
    { [k \in ((IF rs = Absent THEN {} ELSE {"risk_score"})
                \cup (IF liq = "" THEN {} ELSE {"quantitative_metrics"})) |->
          CASE k = "risk_score" -> rs
            [] k = "quantitative_metrics" -> [liquidity_risk |-> liq]] :
        rs \in RiskScoreChoices, liq \in LiquidityChoices }

NoReturn == [pending |-> TRUE]

\* the threads of the server that call the agents
Callers == {"thread-1", "thread-2"}

Idle == [pc |-> "idle"]

\* the stocks table of the data store, by ticker; get_stock_data gives None
\* for a ticker without a row
StockTable ==
    [ TECH |-> [ sector |-> SectorName("Technology"), beta |-> Num(120),
                 debt_to_equity |-> Num(40), market_cap |-> Num(50), pe_ratio |-> Num(25),
                 price_to_book |-> Num(6), profit_margin |-> Num(20), roe |-> Num(20),
                 latest_price |-> Num(100) ] ]

get_stock_data(table, ticker) ==
    IF ticker \in DOMAIN table THEN table[ticker] ELSE PyNone

(***************************************************************************)
(* The operations.  A behaviour is one call: Init draws the operation and  *)
(* its arguments, the operation's action computes what it returns.  The    *)
(* public operations stamp their result with the clock and write one       *)
(* audit event when they return a result and not an error.                 *)
(***************************************************************************)
Return(value, audited) ==
    /\ pc = "call"
    /\ ret' = value
    /\ pc' = "done"
    /\ clock' = clock + 1
    /\ audit_events' = IF audited THEN audit_events + 1 ELSE audit_events
    /\ UNCHANGED <<op, args, sector_correlation_matrix, compliance_rules, risk_thresholds,
                   stocks, calls, completed>>

\* a helper of the engine called on its own: no stamp, no audit event
ReturnPure(value) ==
    /\ pc = "call"
    /\ ret' = value
    /\ pc' = "done"
    /\ UNCHANGED <<op, args, clock, audit_events, sector_correlation_matrix,
                   compliance_rules, risk_thresholds, stocks, calls, completed>>

InitAnalyzePortfolio ==
    /\ op = "analyze_portfolio"
    /\ args \in { [client_id |-> "client", holdings |-> hs] : hs \in HoldingLists }

\* RiskAssessmentAgent.analyze_portfolio
AnalyzePortfolio ==
    /\ op = "analyze_portfolio"
    /\ Return(PortfolioAnalysis(sector_correlation_matrix, args.client_id, args.holdings, clock),
              AnalyzePortfolioRaises(args.holdings) = "")

InitAssessInvestmentRisk ==
    /\ op = "assess_investment_risk"
    /\ args \in { [ticker |-> "TCK", stock_data |-> sd, research_data |-> rd,
                   client_risk_profile |-> tier] :
                    sd \in StockRows, rd \in ResearchDomain, tier \in TierChoices }

\* RiskAssessmentAgent.assess_investment_risk
AssessInvestmentRisk ==
    /\ op = "assess_investment_risk"
    /\ Return(RiskAssessment(sector_correlation_matrix, args.ticker, args.stock_data,
                             args.research_data, args.client_risk_profile, clock),
              AssessInvestmentRiskRaises(args.stock_data) = "")

InitVerifyInvestmentSuitability ==
    /\ op = "verify_investment_suitability"
    /\ args \in { [advisor_id |-> "advisor", client_id |-> "client",
                   investment_data |-> inv, risk_assessment |-> ra] :
                    inv \in InvestmentDomain, ra \in RiskAssessmentDomain }

\* ComplianceAgent.verify_investment_suitability
VerifyInvestmentSuitability ==
    /\ op = "verify_investment_suitability"
    /\ Return(SuitabilityVerification(compliance_rules, args.advisor_id, args.client_id,
                                      args.investment_data, args.risk_assessment, clock),
              VerifySuitabilityRaises(args.investment_data) = "")

InitAssessInvestmentSuitability ==
    /\ op = "_assess_investment_suitability"
    /\ args \in { [ investment_data |->
                      [k \in ((IF rs = Absent THEN {} ELSE {"risk_score"})
                                \cup {"liquidity_risk", "complexity_high"}) |->
                          CASE k = "risk_score" -> rs
                            [] k = "liquidity_risk" -> liq
                            [] k = "complexity_high" -> cx],
                    client_profile |->
                      IF tier = "" THEN <<>> ELSE [risk_tolerance |-> tier] ] :
                    rs \in RiskScoreChoices, liq \in BOOLEAN, cx \in BOOLEAN,
                    tier \in TierChoices \cup {""} }

\* FinancialBaseAgent._assess_investment_suitability
AssessInvestmentSuitability ==
    /\ op = "_assess_investment_suitability"
    /\ ReturnPure(_assess_investment_suitability(args.investment_data, args.client_profile))

InitPerformSuitabilityChecks ==
    /\ op = "_perform_suitability_checks"
    /\ args \in { [ investment_data |-> [financial_metrics |-> Dict([beta |-> b])],
                    risk_assessment |-> ra,
                    client_profile |->
                      [ risk_tolerance |-> tier, investment_experience |-> "intermediate",
                        time_horizon |-> "long_term", liquidity_needs |-> needs ] ] :
                    b \in {Absent, PyNone, Num(120), Num(130), Num(200), Num(210)},
                    ra \in RiskAssessmentDomain,
                    tier \in TierChoices, needs \in {"low", "moderate", "high"} }

\* ComplianceAgent._perform_suitability_checks
PerformSuitabilityChecks ==
    /\ op = "_perform_suitability_checks"
    /\ ReturnPure(_perform_suitability_checks(compliance_rules, args.investment_data,
                                              args.risk_assessment, args.client_profile))

InitCalculateQuantitativeRisks ==
    /\ op = "_calculate_quantitative_risks"
    /\ args \in { [stock_data |-> sd] : sd \in StockDomain }

\* RiskAssessmentAgent._calculate_quantitative_risks
CalculateQuantitativeRisks ==
    /\ op = "_calculate_quantitative_risks"
    /\ ReturnPure(_calculate_quantitative_risks(args.stock_data))

InitCalculateOverallRiskScore ==
    /\ op = "_calculate_overall_risk_score"
    /\ args \in { [ quantitative |-> Dict([beta |-> b, financial_leverage |-> d]),
                    qualitative |->
                      [i \in 1..(h + 1) |->
                          IF i <= h THEN [category |-> "Business Risk", severity |-> "High"]
                          ELSE [category |-> "Market Risk", severity |-> "Medium"]] ] :
                    b \in BetaChoices,
                    d \in {Absent, PyNone, Num(0), Num(70), Num(150)},
                    h \in 0..MaxHighRisks }

\* RiskAssessmentAgent._calculate_overall_risk_score
CalculateOverallRiskScore ==
    /\ op = "_calculate_overall_risk_score"
    /\ ReturnPure(_calculate_overall_risk_score(args.quantitative, args.qualitative))

\* volatility indicators, in hundredths
VolatilityChoices == {50, 200} \cup (100..MaxVolatility)

InitCalculateVarAnalysis ==
    /\ op = "_calculate_var_analysis"
    /\ args \in { [ stock_data |-> Dict([latest_price |-> p]),
                    quantitative_risks |-> [volatility_indicator |-> v] ] :
                    p \in {Absent, PyNone} \cup {Num(n) : n \in 0..MaxPrice},
                    v \in VolatilityChoices }

\* RiskAssessmentAgent._calculate_var_analysis
CalculateVarAnalysis ==
    /\ op = "_calculate_var_analysis"
    /\ ReturnPure(_calculate_var_analysis(args.stock_data, args.quantitative_risks))

InitPerformStressTests ==
    /\ op = "_perform_stress_tests"
    /\ args \in { [stock_data |-> Dict([latest_price |-> p, beta |-> b])] :
                    p \in {Absent, PyNone} \cup {Num(n) : n \in 0..MaxPrice},
                    b \in {Absent, PyNone, Num(0), Num(1), Num(50), Num(100), Num(160), Num(400)} }

\* RiskAssessmentAgent._perform_stress_tests
PerformStressTests ==
    /\ op = "_perform_stress_tests"
    /\ ReturnPure(_perform_stress_tests(args.stock_data))

\* shares of the largest sector, in hundredths of a percent
AllocationChoices ==
    {0, 1250, 1499, 1500, 1501, 2000, 2001, 3000, 3001, 5000, 5001, 10000}

InitCalculateDiversificationScore ==
    /\ op = "_calculate_diversification_score"
    /\ args \in { [num_sectors |-> n, largest_allocation |-> a] :
                    n \in 0..MaxSectors, a \in AllocationChoices }

\* RiskAssessmentAgent._calculate_diversification_score and the label
\* _get_diversification_level gives its score
CalculateDiversificationScore ==
    /\ op = "_calculate_diversification_score"
    /\ LET score == _calculate_diversification_score(args.num_sectors, args.largest_allocation)
       IN  ReturnPure([ diversification_score |-> score,
                        diversification_level |-> _get_diversification_level(score) ])

InitAssessLiquidityRisk ==
    /\ op = "_assess_liquidity_risk"
    /\ args \in { [stock_data |-> Dict([market_cap |-> m])] :
                    m \in {Absent, PyNone, Num(0), Num(1), Num(2), Num(3), Num(10), Num(11), Num(50)} }

\* RiskAssessmentAgent._assess_liquidity_risk, market_cap in billions
AssessLiquidityRisk ==
    /\ op = "_assess_liquidity_risk"
    /\ ReturnPure(_assess_liquidity_risk(args.stock_data))

InitCheckLiquiditySuitability ==
    /\ op = "_check_liquidity_suitability"
    /\ args \in { [client_needs |-> n, investment_liquidity |-> l] :
                    n \in {"high", "moderate", "low", "unspecified"},
                    l \in {"Low", "Moderate", "High", "unknown"} }

\* ComplianceAgent._check_liquidity_suitability on the liquidity_risk of a
\* risk assessment
CheckLiquiditySuitability ==
    /\ op = "_check_liquidity_suitability"
    /\ ReturnPure(_check_liquidity_suitability(args.client_needs, args.investment_liquidity))

InitAssessValuationRisk ==
    /\ op = "_assess_valuation_risk"
    /\ args \in { [stock_data |-> Dict([pe_ratio |-> pe, price_to_book |-> pb])] :
                    pe \in {Absent, PyNone, Num(0 - 5), Num(0), Num(10), Num(14), Num(15),
                            Num(20), Num(30), Num(31), Num(40)},
                    pb \in {Absent, PyNone, Num(0), Num(1), Num(5), Num(6)} }

\* RiskAssessmentAgent._assess_valuation_risk
AssessValuationRisk ==
    /\ op = "_assess_valuation_risk"
    /\ ReturnPure(_assess_valuation_risk(args.stock_data))

SectorChoices ==
    { "", "Technology", "technology", "ENERGY", "Energy", "Financial Services",
      "Healthcare", "Healthcare Technology", "Utilities", "Consumer Staples",
      "Energy Utilities", "Financial Technology", "Real Estate" }

InitCalculateVolatilityIndicator ==
    /\ op = "_calculate_volatility_indicator"
    /\ args \in { [stock_data |-> Dict([beta |-> b, sector |-> sec])] :
                    b \in {Absent, PyNone, Num(0), Num(50), Num(100), Num(120), Num(160)},
                    sec \in {Absent, PyNone} \cup {SectorName(n) : n \in SectorChoices} }

\* RiskAssessmentAgent._calculate_volatility_indicator, hundredths
CalculateVolatilityIndicator ==
    /\ op = "_calculate_volatility_indicator"
    /\ ReturnPure(_calculate_volatility_indicator(args.stock_data))

\* the metrics and the diversification analysis of a portfolio, as far as
\* the health score and the action items read them; the concentration
\* ratio and the portfolio beta are in thousandths
PortfolioFindings ==
    { [ metrics |-> [concentration_ratio |-> c, portfolio_beta |-> b],
        diversification |-> [diversification_score |-> d] ] :
        c \in {0, 149, 150, 200, 249, 250, 275, 300, 301, 400, 401, 1000},
        b \in {0, 599, 600, 799, 800, 1000, 1200, 1201, 1400, 1401, 2000},
        d \in 1..10 }

InitCalculatePortfolioHealthScore ==
    /\ op = "_calculate_portfolio_health_score"
    /\ args \in PortfolioFindings

\* RiskAssessmentAgent._calculate_portfolio_health_score
CalculatePortfolioHealthScore ==
    /\ op = "_calculate_portfolio_health_score"
    /\ ReturnPure(_calculate_portfolio_health_score(args.metrics, args.diversification))

InitGenerateActionItems ==
    /\ op = "_generate_action_items"
    /\ args \in PortfolioFindings

\* RiskAssessmentAgent._generate_action_items
GenerateActionItems ==
    /\ op = "_generate_action_items"
    /\ ReturnPure(_generate_action_items(args.metrics, args.diversification))

\* portfolios of four and seven positions, whose largest position is just
\* above 30%, exactly 30%, 31% and a seventh of the total
ConcentrationBandPortfolios ==
    { [i \in 1..Len(values) |-> [value |-> Num(values[i]), beta |-> Num(100)]] :
        values \in { << 601, 600, 600, 200 >>, << 3, 3, 3, 1 >>, << 31, 30, 30, 9 >>,
                     << 41, 30, 20, 9 >>, << 1, 1, 1, 1, 1, 1, 1 >> } }

InitCalculatePortfolioRiskMetrics ==
    /\ op = "_calculate_portfolio_risk_metrics"
    /\ args \in { [holdings |-> hs] : hs \in ConcentrationBandPortfolios }

\* RiskAssessmentAgent._calculate_portfolio_risk_metrics
CalculatePortfolioRiskMetrics ==
    /\ op = "_calculate_portfolio_risk_metrics"
    /\ ReturnPure(_calculate_portfolio_risk_metrics(args.holdings))

\* the agents after construction, their data store, and nobody calling
Constructed ==
    /\ sector_correlation_matrix = _initialize_correlation_matrix
    /\ compliance_rules = ComplianceRulesInit
    /\ risk_thresholds = RiskThresholdsInit
    /\ stocks = StockTable
    /\ calls = [c \in Callers |-> Idle]
    /\ completed = {}

Init ==
    /\ pc = "call"
    /\ ret = NoReturn
    /\ clock = 0
    /\ audit_events = 0
    /\ Constructed
    /\ \/ InitAnalyzePortfolio
       \/ InitAssessInvestmentRisk
       \/ InitVerifyInvestmentSuitability
       \/ InitAssessInvestmentSuitability
       \/ InitPerformSuitabilityChecks
       \/ InitCalculateQuantitativeRisks
       \/ InitCalculateOverallRiskScore
       \/ InitCalculateVarAnalysis
       \/ InitPerformStressTests
       \/ InitCalculateDiversificationScore
       \/ InitAssessLiquidityRisk
       \/ InitCheckLiquiditySuitability
       \/ InitAssessValuationRisk
       \/ InitCalculateVolatilityIndicator
       \/ InitCalculatePortfolioHealthScore
       \/ InitGenerateActionItems
       \/ InitCalculatePortfolioRiskMetrics

Next ==
    \/ AnalyzePortfolio
    \/ AssessInvestmentRisk
    \/ VerifyInvestmentSuitability
    \/ AssessInvestmentSuitability
    \/ PerformSuitabilityChecks
    \/ CalculateQuantitativeRisks
    \/ CalculateOverallRiskScore
    \/ CalculateVarAnalysis
    \/ PerformStressTests
    \/ CalculateDiversificationScore
    \/ AssessLiquidityRisk
    \/ CheckLiquiditySuitability
    \/ AssessValuationRisk
    \/ CalculateVolatilityIndicator
    \/ CalculatePortfolioHealthScore
    \/ GenerateActionItems
    \/ CalculatePortfolioRiskMetrics

Spec == Init /\ [][Next]_vars

(***************************************************************************)
(* The agents serving the threads of the server.  A call starts (the      *)
(* thread enters the operation; assess_investment_risk reads the          *)
(* instrument's row) and later returns (the result is compiled from the   *)
(* agent's tables, stamped with the clock and logged); the calls of the    *)
(* threads interleave.  completed keeps every call that has returned.     *)
(***************************************************************************)
\* holdings lists of the requests
EngineHoldingLists ==
    { << [sector |-> "Technology", value |-> Num(2), beta |-> Num(150)],
         [sector |-> "Energy", value |-> Num(1), beta |-> Num(50)] >>,
      << [sector |-> "Real Estate", value |-> Num(1)],
         [value |-> Num(1), beta |-> Num(50)] >> }

\* tickers of the requests: one the data store has, one it lacks
EngineTickers == {"TECH", "NONE"}

EngineResearchData == [risk_factors |-> PyList(<< "risk factor" >>)]

\* what the compliance step is given: the research result and a risk assessment
EngineInvestmentData == [financial_metrics |-> [beta |-> Num(100)], description |-> ""]

EngineRiskAssessments == { [risk_score |-> Num(5)] }

Running(operation, arguments, row) ==
    [ pc |-> "running", op |-> operation, args |-> arguments, given |-> arguments,
      seen |-> row, entered |-> clock ]

IsRunning(c, operation) == calls[c].pc = "running" /\ calls[c].op = operation

InFlight == Cardinality({c \in Callers : calls[c].pc = "running"})

CanCall(c) == calls[c].pc = "idle" /\ Cardinality(completed) + InFlight < MaxCalls

\* variant: setdefault(sector, {}), which adds an empty row for a sector the
\* matrix lacks
MatrixAfterSetdefault(matrix, sector) ==
    [k \in DOMAIN matrix \cup {SectorKey(sector)} |->
        IF k \in DOMAIN matrix THEN matrix[k] ELSE <<>>]

\* self.sector_correlation_matrix.get(sector, {}): the matrix after the
\* lookup; get inserts nothing for a sector the matrix lacks
MatrixAfterGet(matrix, sector) == matrix

RECURSIVE MatrixAfterLookups(_, _)
MatrixAfterLookups(matrix, sectors) ==
    IF sectors = <<>> THEN matrix
    ELSE MatrixAfterLookups(MatrixAfterGet(matrix, Head(sectors)), Tail(sectors))

\* the sectors _analyze_portfolio_correlations looks up as sector1: the
\* first of every pair, until the weights of a pair raise
PortfolioLookups(holdings) ==
    IF Len(holdings) < 2 THEN <<>>
    ELSE IF CorrelationsRaises(holdings) # "" THEN << HoldingSector(holdings[1]) >>
    ELSE [i \in 1..(Len(holdings) - 1) |-> HoldingSector(holdings[i])]

\* the sector _analyze_correlations looks up
InstrumentLookups(stock_data) ==
    IF IsDict(stock_data) /\ "sector" \in DOMAIN stock_data /\ stock_data.sector.t = "str"
    THEN << stock_data.sector.name >>
    ELSE <<>>

\* a thread enters an operation
Enter(c, operation, arguments, row) ==
    /\ CanCall(c)
    /\ calls' = [calls EXCEPT ![c] = Running(operation, arguments, row)]
    /\ UNCHANGED <<op, args, ret, pc, clock, audit_events, sector_correlation_matrix,
                   compliance_rules, risk_thresholds, stocks, completed>>

\* an operation returns value to its thread; the arguments are the caller's
\* objects as the operation leaves them
Complete(c, value, audited) ==
    /\ completed' = completed \cup
          { [ caller |-> c, op |-> calls[c].op, given |-> calls[c].given,
              args |-> calls[c].args, ret |-> value, entered |-> calls[c].entered,
              at |-> clock ] }
    /\ calls' = [calls EXCEPT ![c] = Idle]
    /\ clock' = clock + 1
    /\ audit_events' = IF audited THEN audit_events + 1 ELSE audit_events
    /\ UNCHANGED <<op, args, ret, pc, compliance_rules, risk_thresholds, stocks>>

CallAnalyzePortfolio ==
    \E c \in Callers, hs \in EngineHoldingLists :
        /\ calls[c].pc = "idle"
        /\ Enter(c, "analyze_portfolio", [client_id |-> "client", holdings |-> hs], PyNone)

\* RiskAssessmentAgent.analyze_portfolio
ReturnAnalyzePortfolio ==
    \E c \in Callers :
        /\ IsRunning(c, "analyze_portfolio")
        /\ Complete(c, PortfolioAnalysis(sector_correlation_matrix, calls[c].args.client_id,
                                         calls[c].args.holdings, clock),
                    AnalyzePortfolioRaises(calls[c].args.holdings) = "")
        /\ sector_correlation_matrix' =
              MatrixAfterLookups(sector_correlation_matrix,
                                 PortfolioLookups(calls[c].args.holdings))

CallAssessInvestmentRisk ==
    \E c \in Callers, ticker \in EngineTickers :
        /\ calls[c].pc = "idle"
        /\ Enter(c, "assess_investment_risk",
                 [ ticker |-> ticker, research_data |-> EngineResearchData,
                   client_risk_profile |-> "moderate" ],
                 get_stock_data(stocks, ticker))

\* RiskAssessmentAgent.assess_investment_risk
ReturnAssessInvestmentRisk ==
    \E c \in Callers :
        /\ IsRunning(c, "assess_investment_risk")
        /\ Complete(c, RiskAssessment(sector_correlation_matrix, calls[c].args.ticker,
                                      calls[c].seen, calls[c].args.research_data,
                                      calls[c].args.client_risk_profile, clock),
                    AssessInvestmentRiskRaises(calls[c].seen) = "")
        /\ sector_correlation_matrix' =
              MatrixAfterLookups(sector_correlation_matrix, InstrumentLookups(calls[c].seen))

CallVerifyInvestmentSuitability ==
    \E c \in Callers, ra \in EngineRiskAssessments :
        /\ calls[c].pc = "idle"
        /\ Enter(c, "verify_investment_suitability",
                 [ advisor_id |-> "advisor", client_id |-> "client",
                   investment_data |-> EngineInvestmentData, risk_assessment |-> ra ],
                 PyNone)

\* ComplianceAgent.verify_investment_suitability
ReturnVerifyInvestmentSuitability ==
    \E c \in Callers :
        /\ IsRunning(c, "verify_investment_suitability")
        /\ Complete(c, SuitabilityVerification(compliance_rules, calls[c].args.advisor_id,
                                               calls[c].args.client_id,
                                               calls[c].args.investment_data,
                                               calls[c].args.risk_assessment, clock),
                    VerifySuitabilityRaises(calls[c].args.investment_data) = "")
        /\ UNCHANGED sector_correlation_matrix

EngineInit ==
    /\ op = "serve"
    /\ args = <<>>
    /\ ret = NoReturn
    /\ pc = "serve"
    /\ clock = 0
    /\ audit_events = 0
    /\ Constructed

EngineNext ==
    \/ CallAnalyzePortfolio
    \/ ReturnAnalyzePortfolio
    \/ CallAssessInvestmentRisk
    \/ ReturnAssessInvestmentRisk
    \/ CallVerifyInvestmentSuitability
    \/ ReturnVerifyInvestmentSuitability

EngineSpec == EngineInit /\ [][EngineNext]_vars

(***************************************************************************)
(* Callers that write to what they were returned.  _analyze_correlations   *)
(* puts the matrix's own row for the sector into its result, so the        *)
(* sector_correlations dict a caller holds is that row: an entry the       *)
(* caller assigns in it is assigned in the matrix of the agent.            *)
(***************************************************************************)
\* result['correlation_analysis']['sector_correlations'][other] = 0.9, by
\* the caller of a completed assess_investment_risk
ModifySectorCorrelations ==
    \E r \in completed, other \in {"Energy", "Healthcare"} :
        /\ r.op = "assess_investment_risk"
        /\ "correlation_analysis" \in DOMAIN r.ret
        /\ "sector_correlations" \in DOMAIN r.ret.correlation_analysis
        /\ r.ret.correlation_analysis.sector.t = "str"
        /\ LET row == SectorKey(r.ret.correlation_analysis.sector.name)
           IN  /\ row \in DOMAIN sector_correlation_matrix
               /\ other \in DOMAIN sector_correlation_matrix[row]
               /\ sector_correlation_matrix[row][other] # 9
               /\ sector_correlation_matrix' =
                      [sector_correlation_matrix EXCEPT ![row][other] = 9]
        /\ UNCHANGED <<op, args, ret, pc, clock, audit_events, compliance_rules,
                       risk_thresholds, stocks, calls, completed>>

SharingNext ==
    \/ CallAnalyzePortfolio
    \/ ReturnAnalyzePortfolio
    \/ CallAssessInvestmentRisk
    \/ ReturnAssessInvestmentRisk
    \/ ModifySectorCorrelations

SharingSpec == EngineInit /\ [][SharingNext]_vars

(***************************************************************************)
(* The claims.                                                             *)
(***************************************************************************)
Done(operation) == pc = "done" /\ op = operation

NumericValues(holdings) == SumRaises(holdings) = ""

ManualReviewWarning == "Suitability assessment failed - manual review required"

\* C1: analyze_portfolio rejects a portfolio whose holdings list is empty or
\* whose total value is zero: the caller gets an error result, and no
\* health_score, risk metrics, VaR or action_items computed from defaults.
C1_EmptyOrWorthlessPortfolioRejected ==
    ( /\ Done("analyze_portfolio")
      /\ \/ args.holdings = <<>>
         \/ NumericValues(args.holdings) /\ SumValues(args.holdings) = 0 )
    => /\ "error" \in DOMAIN ret
       /\ DOMAIN ret \cap {"health_score", "risk_metrics", "var_analysis", "action_items"} = {}

\* an internal step of the suitability evaluation faulted
SuitabilityFault(rules, investment_data, risk_assessment) ==
    \/ SuitabilityChecksRaises(rules, investment_data, risk_assessment,
                               _get_client_risk_profile("client")) # ""
    \/ VerifySuitabilityRaises(investment_data) # ""

\* C2: whenever an internal step of verify_investment_suitability faults (a
\* malformed risk_score or beta), the verdict returned has overall_suitable
\* = false and signals that manual review is required.
C2_FaultMeansUnsuitableAndManualReview ==
    ( /\ Done("verify_investment_suitability")
      /\ SuitabilityFault(compliance_rules, args.investment_data, args.risk_assessment) )
    => /\ ret.overall_suitable = FALSE
       /\ DictGet(ret, "requires_manual_review", FALSE)

KnownTiers == {"conservative", "moderate", "aggressive"}

UnknownTier(client_profile) ==
    DictGet(client_profile, "risk_tolerance", "") \notin KnownTiers

PolicyMaxRiskScore(tier) ==
    CASE tier = "conservative" -> 4
      [] tier = "moderate" -> 7
      [] tier = "aggressive" -> 10

\* C4 as stated: for every tier and every risk_score in 1..10,
\* _assess_investment_suitability returns suitable = true exactly when
\* risk_score <= tier.max_risk_score + 1, tier.max_risk_score being the
\* tier's policy value (conservative = 4).
C4_SlackOverPolicyValue ==
    ( /\ Done("_assess_investment_suitability")
      /\ "risk_tolerance" \in DOMAIN args.client_profile
      /\ args.client_profile.risk_tolerance \in KnownTiers
      /\ "risk_score" \in DOMAIN args.investment_data
      /\ IsNum(args.investment_data.risk_score)
      /\ args.investment_data.risk_score.n \in 1..10 )
    => ret.suitable = (args.investment_data.risk_score.n
                          <= PolicyMaxRiskScore(args.client_profile.risk_tolerance) + 1)

\* the tolerance the single-investment check gives each tier
SingleInvestmentTolerance(tier) ==
    CASE tier = "conservative" -> 3
      [] tier = "moderate" -> 5
      [] tier = "aggressive" -> 8

\* C4 amended: single-investment suitability uses one unit of slack over
\* the tier's tolerance in its own table (conservative 3, moderate 5,
\* aggressive 8), not over the policy's max_risk_score: for every tier and
\* risk_score in 1..10, suitable = true exactly when risk_score <=
\* tolerance + 1 (so conservative with 5 or 6 is unsuitable), while the
\* compliance check passes exactly when risk_score <= tier.max_risk_score
\* (4, 7, 10), with no slack.
C4_SlackOverToleranceTable ==
    /\ ( /\ Done("_assess_investment_suitability")
         /\ "risk_tolerance" \in DOMAIN args.client_profile
         /\ args.client_profile.risk_tolerance \in KnownTiers
         /\ "risk_score" \in DOMAIN args.investment_data
         /\ IsNum(args.investment_data.risk_score)
         /\ args.investment_data.risk_score.n \in 1..10 )
       => ret.suitable = (args.investment_data.risk_score.n
                             <= SingleInvestmentTolerance(args.client_profile.risk_tolerance) + 1)
    /\ ( /\ Done("_perform_suitability_checks")
         /\ "risk_score_suitable" \in DOMAIN ret )
       => ret.risk_score_suitable.passed
             = (DictGet(args.risk_assessment, "risk_score", Num(5)).n
                   <= PolicyMaxRiskScore(args.client_profile.risk_tolerance))

C4_Witness ==
    /\ Done("_assess_investment_suitability")
    /\ DictGet(args.client_profile, "risk_tolerance", "") = "conservative"
    /\ DictGet(args.investment_data, "risk_score", Num(5)) = Num(4)
    /\ ret.suitable = TRUE

\* the conjunction of the 'passed' flags of the named checks of a result
PassedFlags(checks, names) ==
    \A i \in 1..Len(names) : names[i] \in DOMAIN checks => checks[names[i]].passed

\* the same investment with another state of its written rationale
SetRationale(investment_data, rationale) ==
    LET recommendation == DictGet(investment_data, "recommendation", <<>>)
        changed == [k \in DOMAIN recommendation \cup {"rationale"} |->
                       IF k = "rationale" THEN rationale ELSE recommendation[k]]
    IN  [k \in DOMAIN investment_data \cup {"recommendation"} |->
            IF k = "recommendation" THEN changed ELSE investment_data[k]]

NotAboutDocumentation(recommendation) == recommendation.kind # "MISSING DOCUMENTATION"

\* C5: the verdict of verify_investment_suitability is the conjunction of the
\* 'passed' flags of all suitability checks and all concentration checks and
\* does not depend on documentation: the same evaluation with another
\* documentation status gives the same overall_suitable, the documentation
\* gap changing only the recommendations about missing documentation.
C5_VerdictIndependentOfDocumentation ==
    Done("verify_investment_suitability")
    => /\ "error" \notin DOMAIN ret
          => ret.overall_suitable
                = ( /\ PassedFlags(ret.suitability_checks, SuitabilityCheckNames)
                    /\ PassedFlags(ret.concentration_analysis, ConcentrationCheckNames) )
       /\ \A rationale \in {PyStr, PyNone} :
            LET other == SuitabilityVerification(
                             compliance_rules, args.advisor_id, args.client_id,
                             SetRationale(args.investment_data, rationale),
                             args.risk_assessment, ret.analysis_timestamp)
            IN  /\ other.overall_suitable = ret.overall_suitable
                /\ "error" \notin DOMAIN ret
                   => /\ "error" \notin DOMAIN other
                      /\ SelectSeq(other.compliance_recommendations, NotAboutDocumentation)
                           = SelectSeq(ret.compliance_recommendations, NotAboutDocumentation)

C5_Witness ==
    /\ Done("verify_investment_suitability")
    /\ "error" \notin DOMAIN ret
    /\ "risk_score_suitable" \in DOMAIN ret.suitability_checks
    /\ ret.overall_suitable = TRUE
    /\ ret.documentation_status.all_required_present = FALSE
    /\ \E i \in 1..Len(ret.documentation_status.missing_documents) :
          ret.documentation_status.missing_documents[i] = "investment_rationale"

\* C6: every risk_score returned is an integer in 1..10, every
\* diversification_score an integer in 1..10 and every health_score an
\* integer in 1..100, on the normal paths and on the error and default paths.
C6_ScoresClamped ==
    /\ Done("_calculate_overall_risk_score") => ret \in 1..10
    /\ Done("assess_investment_risk") => ret.risk_score \in 1..10
    /\ ( Done("analyze_portfolio") /\ "health_score" \in DOMAIN ret )
       => /\ ret.health_score \in 1..100
          /\ "diversification_score" \in DOMAIN ret.diversification
             => ret.diversification.diversification_score \in 1..10

C6_Witness ==
    /\ Done("_calculate_overall_risk_score")
    /\ HighRiskCount(args.qualitative) = MaxHighRisks
    /\ DictGet(args.quantitative, "beta", Num(100)) = Num(160)
    /\ DictGet(args.quantitative, "financial_leverage", Num(0)) = Num(150)
    /\ ret = 10

RECURSIVE SumOver(_, _)
SumOver(f, S) ==
    IF S = {} THEN 0
    ELSE LET x == CHOOSE y \in S : TRUE IN f[x] + SumOver(f, S \ {x})

Abs(x) == IF x < 0 THEN -x ELSE x

Unknown(d, key) == key \notin DOMAIN d \/ d[key] = PyNone

\* C9: _calculate_quantitative_risks, given fundamentals that are unknown
\* (absent or None), returns the documented default for each: beta 1.0,
\* leverage 0, and the volatility indicator of beta 1.0 times the sector
\* multiplier (beta and leverage in hundredths).
C9_UnknownFundamentalsDefaulted ==
    ( Done("_calculate_quantitative_risks") /\ IsDict(args.stock_data) )
    => LET stock_data == args.stock_data
       IN  /\ Unknown(stock_data, "beta")
              => /\ ret.beta = Num(100)
                 /\ LET sector == DictGet(stock_data, "sector", SectorName(""))
                    IN  sector.t = "str"
                        => ret.volatility_indicator
                              = RoundDiv(100 * SectorMultiplier(sector.name), 10)
           /\ Unknown(stock_data, "debt_to_equity") => ret.financial_leverage = Num(0)

\* C10: a portfolio whose holdings have beta, pe_ratio or debt_to_equity
\* absent or None, and whose values are numbers with a positive total, is
\* analysed without a top-level error and its portfolio risk metrics are
\* reported.
C10_MetricsDespiteUnknownFundamentals ==
    ( /\ Done("analyze_portfolio")
      /\ args.holdings # <<>>
      /\ NumericValues(args.holdings)
      /\ SumValues(args.holdings) > 0 )
    => /\ "error" \notin DOMAIN ret
       /\ "risk_metrics" \in DOMAIN ret
       /\ "error" \notin DOMAIN ret.risk_metrics
       /\ "portfolio_beta" \in DOMAIN ret.risk_metrics

\* a result without its timestamp
SansTimestamp(r) ==
    [k \in DOMAIN r \ {"analysis_timestamp", "assessment_timestamp"} |-> r[k]]

C12_TablesAndArgumentsUntouched ==
    /\ sector_correlation_matrix = _initialize_correlation_matrix
    /\ risk_thresholds = RiskThresholdsInit
    /\ compliance_rules = ComplianceRulesInit
    /\ \A r \in completed : r.args = r.given
    /\ \A c \in Callers : calls[c].pc = "running" => calls[c].args = calls[c].given

C12_Witness ==
    /\ \E r \in completed :
          /\ r.op = "analyze_portfolio"
          /\ Len(r.given.holdings) = 2
          /\ SectorKey(HoldingSector(r.given.holdings[1]))
                \notin DOMAIN _initialize_correlation_matrix
    /\ \E r \in completed : r.op = "assess_investment_risk" /\ "error" \notin DOMAIN r.ret
    /\ \E r \in completed : r.op = "verify_investment_suitability"

\* what a call returns when the constructed engine serves it alone
ServedAlone(r) ==
    CASE r.op = "analyze_portfolio" ->
           PortfolioAnalysis(_initialize_correlation_matrix, r.given.client_id,
                             r.given.holdings, 0)
      [] r.op = "assess_investment_risk" ->
           RiskAssessment(_initialize_correlation_matrix, r.given.ticker,
                          get_stock_data(StockTable, r.given.ticker),
                          r.given.research_data, r.given.client_risk_profile, 0)

\* C13: for any interleaving of calls to analyze_portfolio and
\* assess_investment_risk by several callers of the same engine, each call
\* returns, but for the timestamp, what it returns when executed alone.
C13_InterleavedCallsAsAlone ==
    \A r \in completed :
        r.op \in {"analyze_portfolio", "assess_investment_risk"}
        => SansTimestamp(r.ret) = SansTimestamp(ServedAlone(r))

\* two calls of different threads that overlapped: b entered before a returned
C13_Witness ==
    \E a, b \in completed :
        /\ a.op = "analyze_portfolio"
        /\ "health_score" \in DOMAIN a.ret
        /\ b.op = "assess_investment_risk"
        /\ "error" \notin DOMAIN b.ret
        /\ a.caller # b.caller
        /\ b.entered <= a.at
        /\ a.entered <= b.entered
        /\ a.at < b.at

\* the var_95_1_day reported at the price of a VaR call for another volatility
VarAt(volatility) ==
    _calculate_var_analysis(args.stock_data, [volatility_indicator |-> volatility]).var_95_1_day

PricedVarCall ==
    /\ Done("_calculate_var_analysis")
    /\ "latest_price" \in DOMAIN args.stock_data
    /\ IsNum(args.stock_data.latest_price)
    /\ args.stock_data.latest_price.n > 0

\* C14 as stated: for every fixed price > 0 and every pair of volatility
\* indicators v1 < v2, the var_95_1_day reported for v2 is strictly greater
\* than the one reported for v1.
C14_VarStrictlyIncreasing ==
    PricedVarCall
    => \A v1 \in VolatilityChoices :
          v1 < args.quantitative_risks.volatility_indicator => VarAt(v1) < ret.var_95_1_day

\* C14 amended: the reported var_95_1_day is rounded to cents, so for a
\* fixed price > 0 and v1 < v2 the value reported for v2 is never less than
\* the one for v1, and it is strictly greater whenever the unrounded values
\* price x 0.016 x v x 1.65 differ by more than one cent (price in units,
\* volatility in hundredths: price * 264 * (v2 - v1) > 10000).
C14_VarIncreasingUpToRounding ==
    PricedVarCall
    => LET v2 == args.quantitative_risks.volatility_indicator
           price == args.stock_data.latest_price.n
       IN  \A v1 \in VolatilityChoices :
              v1 < v2
              => /\ VarAt(v1) <= ret.var_95_1_day
                 /\ price * 264 * (v2 - v1) > 10000 => VarAt(v1) < ret.var_95_1_day

C14_Witness ==
    /\ PricedVarCall
    /\ args.stock_data.latest_price.n = 10
    /\ args.quantitative_risks.volatility_indicator = 102
    /\ ret.var_95_1_day = VarAt(101)
    /\ VarAt(50) < ret.var_95_1_day

\* C15: for every price > 0 and every beta > 0 the stock_impact of
\* recession_scenario is at least as severe as that of market_crash_20, so
\* its projected_price is never above and its dollar_loss never below
\* market_crash_20's.
C15_RecessionAtLeastAsSevereAsCrash ==
    ( /\ Done("_perform_stress_tests")
      /\ IsNum(DictGet(args.stock_data, "latest_price", Num(100)))
      /\ DictGet(args.stock_data, "latest_price", Num(100)).n > 0
      /\ IsNum(DictGet(args.stock_data, "beta", Num(100)))
      /\ DictGet(args.stock_data, "beta", Num(100)).n > 0 )
    => /\ "scenarios" \in DOMAIN ret
       /\ LET recession == ret.scenarios.recession_scenario
              crash == ret.scenarios.market_crash_20
          IN  /\ recession.stock_impact <= crash.stock_impact
              /\ Abs(recession.stock_impact) >= Abs(crash.stock_impact)
              /\ recession.projected_price <= crash.projected_price
              /\ recession.dollar_loss >= crash.dollar_loss

C15_Witness ==
    /\ Done("_perform_stress_tests")
    /\ args.stock_data = [latest_price |-> Num(10), beta |-> Num(100)]
    /\ ret.scenarios.recession_scenario.projected_price = 700
    /\ ret.scenarios.market_crash_20.projected_price = 800

\* C16: every result of assess_investment_risk, whether or not the data
\* store has the instrument, carries a risk_level among Low, Moderate, High
\* and Very High, and it is the level of its risk_score (<= 3 Low, <= 6
\* Moderate, <= 8 High, else Very High).
C16_RiskLevelOfRiskScore ==
    Done("assess_investment_risk")
    => /\ ret.risk_level \in {"Low", "Moderate", "High", "Very High"}
       /\ ret.risk_level = ( IF ret.risk_score <= 3 THEN "Low"
                             ELSE IF ret.risk_score <= 6 THEN "Moderate"
                             ELSE IF ret.risk_score <= 8 THEN "High"
                             ELSE "Very High" )

\* the score and label the rule gives a number of sectors and a largest
\* share (in hundredths of a percent)
DiversificationRule(sectors, share) ==
    LET bySectors == IF sectors >= 8 THEN 2
                     ELSE IF sectors >= 5 THEN 1
                     ELSE IF sectors <= 2 THEN -2
                     ELSE 0
        byShare == IF share > 5000 THEN -3
                   ELSE IF share > 3000 THEN -2
                   ELSE IF share > 2000 THEN -1
                   ELSE IF share < 1500 THEN 1
                   ELSE 0
        raw == 5 + bySectors + byShare
        score == IF raw < 1 THEN 1 ELSE IF raw > 10 THEN 10 ELSE raw
    IN  [ diversification_score |-> score,
          diversification_level |-> IF score >= 8 THEN "Excellent"
                                    ELSE IF score >= 6 THEN "Good"
                                    ELSE IF score >= 4 THEN "Fair"
                                    ELSE "Poor" ]

\* C17: diversification_score = clamp(5 + s + c, 1, 10) with s by the number
\* of sectors and c by the largest share, labelled Excellent from 8
\* (inclusive), Good from 6, Fair from 4, else Poor; a single-holding
\* portfolio scores 1 / Poor and eight equal sectors score 8 / Excellent.
C17_DiversificationScoreAndLabel ==
    /\ Done("_calculate_diversification_score")
       => ret = DiversificationRule(args.num_sectors, args.largest_allocation)
    /\ ( /\ Done("analyze_portfolio")
         /\ "diversification" \in DOMAIN ret
         /\ "diversification_score" \in DOMAIN ret.diversification )
       => LET d == ret.diversification
              rule == DiversificationRule(d.number_of_sectors, d.largest_sector_allocation)
          IN  /\ d.diversification_score = rule.diversification_score
              /\ d.diversification_level = rule.diversification_level
              /\ Len(args.holdings) = 1
                 => d.diversification_score = 1 /\ d.diversification_level = "Poor"

C17_Witness ==
    /\ Done("_calculate_diversification_score")
    /\ args = [num_sectors |-> 8, largest_allocation |-> 1250]
    /\ ret = [diversification_score |-> 8, diversification_level |-> "Excellent"]

\* liquidity-risk tiers, the most liquid first
LiquidityRiskRank(tier) ==
    CASE tier = "Low" -> 1
      [] tier = "Moderate" -> 2
      [] tier = "High" -> 3

\* C18: the liquidity tier is a risk tier by market cap (above 10e9 Low,
\* above 2e9 Moderate, else High), and in the compliance liquidity check an
\* instrument of a tier that passes for a client need means every tier of
\* lower liquidity risk (more liquid) passes for that need too.
C18_LiquidityPolarityPreserved ==
    /\ ( Done("_assess_liquidity_risk") /\ "market_cap" \in DOMAIN args.stock_data
         /\ IsNum(args.stock_data.market_cap) )
       => ret = ( IF args.stock_data.market_cap.n > 10 THEN "Low"
                  ELSE IF args.stock_data.market_cap.n > 2 THEN "Moderate"
                  ELSE "High" )
    /\ ( Done("_check_liquidity_suitability")
         /\ args.investment_liquidity \in {"Low", "Moderate", "High"}
         /\ ret = TRUE )
       => \A tier \in {"Low", "Moderate", "High"} :
              LiquidityRiskRank(tier) < LiquidityRiskRank(args.investment_liquidity)
              => _check_liquidity_suitability(args.client_needs, tier)

\* a ratio that is a number, neither absent nor None
Present(stock_data, key) == key \in DOMAIN stock_data /\ IsNum(stock_data[key])

\* C19: valuation risk is High if PE > 30, else High if PB > 5, else Low if
\* PE < 15, else Moderate; a missing ratio only skips its own comparison and
\* a ratio that is present is compared as the number it is.
C19_ValuationRiskByRatios ==
    Done("_assess_valuation_risk")
    => LET sd == args.stock_data
           pe == Present(sd, "pe_ratio")
           pb == Present(sd, "price_to_book")
       IN  ret = ( IF pe /\ sd.pe_ratio.n > 30 THEN "High"
                   ELSE IF pb /\ sd.price_to_book.n > 5 THEN "High"
                   ELSE IF pe /\ sd.pe_ratio.n < 15 THEN "Low"
                   ELSE "Moderate" )

\* the multiplier, in tenths, of the first key of the fixed order that the
\* sector name contains
FirstKeyMultiplier(sector) ==
    IF KeyInSector("technology", sector) THEN 13
    ELSE IF KeyInSector("energy", sector) THEN 14
    ELSE IF KeyInSector("financial", sector) THEN 12
    ELSE IF KeyInSector("healthcare", sector) THEN 9
    ELSE IF KeyInSector("utilities", sector) THEN 7
    ELSE IF KeyInSector("consumer staples", sector) THEN 8
    ELSE 10

\* C20: for a sector string and a beta, volatility_indicator is beta times
\* the multiplier of the first key, in the order technology 1.3, energy 1.4,
\* financial 1.2, healthcare 0.9, utilities 0.7, consumer staples 0.8, that
\* the sector name contains whatever its case, 1.0 when it contains none,
\* rounded to two decimals.
C20_VolatilityIsBetaTimesFirstKey ==
    ( /\ Done("_calculate_volatility_indicator")
      /\ Present(args.stock_data, "beta")
      /\ "sector" \in DOMAIN args.stock_data
      /\ args.stock_data.sector.t = "str" )
    => ret = RoundDiv(args.stock_data.beta.n * FirstKeyMultiplier(args.stock_data.sector.name), 10)

C20_Witness ==
    /\ Done("_calculate_volatility_indicator")
    /\ args.stock_data = [beta |-> Num(50), sector |-> SectorName("Healthcare Technology")]
    /\ ret = 65

\* the health score the rule gives a diversification score, a concentration
\* ratio and a portfolio beta (both in thousandths)
HealthRule(d, concentration, beta) ==
    LET c == IF concentration < 150 THEN 10
             ELSE IF concentration < 250 THEN 5
             ELSE IF concentration > 400 THEN 0 - 15
             ELSE IF concentration > 300 THEN 0 - 10
             ELSE 0
        b == IF beta >= 800 /\ beta <= 1200 THEN 10
             ELSE IF beta >= 600 /\ beta <= 1400 THEN 5
             ELSE 0 - 5
        raw == 60 + 3 * (d - 5) + c + b
    IN  IF raw < 1 THEN 1 ELSE IF raw > 100 THEN 100 ELSE raw

\* C21: health_score = clamp(60 + 3 x (diversification_score - 5) + c + b,
\* 1, 100) with c = +10 below 0.15 concentration, +5 below 0.25, -15 above
\* 0.40, -10 above 0.30, 0 in [0.25, 0.30], and b = +10 for a beta in
\* [0.8, 1.2], +5 in [0.6, 1.4], else -5.
C21_HealthScoreFormula ==
    /\ Done("_calculate_portfolio_health_score")
       => ret = HealthRule(args.diversification.diversification_score,
                           args.metrics.concentration_ratio, args.metrics.portfolio_beta)
    /\ ( /\ Done("analyze_portfolio")
         /\ "health_score" \in DOMAIN ret
         /\ "concentration_ratio" \in DOMAIN ret.risk_metrics
         /\ "diversification_score" \in DOMAIN ret.diversification )
       => ret.health_score = HealthRule(ret.diversification.diversification_score,
                                        ret.risk_metrics.concentration_ratio,
                                        ret.risk_metrics.portfolio_beta)

C21_Witness ==
    /\ Done("_calculate_portfolio_health_score")
    /\ args.diversification.diversification_score = 8
    /\ args.metrics = [concentration_ratio |-> 401, portfolio_beta |-> 1000]
    /\ ret = 64

PriorityConcentration == "PRIORITY: Reduce largest position to under 20% of portfolio"
PriorityDiversification == "PRIORITY: Add positions in at least 2 additional sectors"

Items(s) == {s[i] : i \in 1..Len(s)}

\* what the claim says of a list of action items, given the concentration
\* ratio (thousandths) and the diversification score they were built from
ActionItemsRule(items, concentration_ratio, diversification_score) ==
    /\ PriorityConcentration \in Items(items) <=> concentration_ratio > 300
    /\ PriorityDiversification \in Items(items) <=> diversification_score < 4
    /\ \A i, j \in 1..Len(items) :
           ( /\ items[i] \in {PriorityConcentration, PriorityDiversification}
             /\ items[j] \notin {PriorityConcentration, PriorityDiversification} )
           => i < j
    /\ Len(items) <= 5

\* C22: in the action items of a portfolio analysis the PRIORITY item for
\* concentration is present exactly when concentration_ratio > 0.3, the one
\* for diversification exactly when diversification_score < 4, every
\* PRIORITY item precedes every maintenance item, and the list has at most
\* 5 entries.
C22_PriorityItemsFirstAndCapped ==
    /\ Done("_generate_action_items")
       => ActionItemsRule(ret, args.metrics.concentration_ratio,
                          args.diversification.diversification_score)
    /\ ( /\ Done("analyze_portfolio")
         /\ "action_items" \in DOMAIN ret
         /\ "concentration_ratio" \in DOMAIN ret.risk_metrics
         /\ "diversification_score" \in DOMAIN ret.diversification )
       => ActionItemsRule(ret.action_items, ret.risk_metrics.concentration_ratio,
                          ret.diversification.diversification_score)

C22_Witness ==
    /\ Done("_generate_action_items")
    /\ args.metrics.concentration_ratio = 301
    /\ args.diversification.diversification_score = 3
    /\ Len(ret) = 5
    /\ ret[1] = PriorityConcentration
    /\ ret[2] = PriorityDiversification

\* the stock_impact the rule gives a scenario, in hundredths of a percent,
\* for a beta in hundredths
StressImpactRule(name, beta) ==
    CASE name = "market_crash_20" -> 0 - 20 * beta
      [] name = "sector_decline_15" -> 0 - 1500
      [] name = "interest_rate_shock" -> 0 - 10 * (IF beta < 150 THEN beta ELSE 150)
      [] name = "recession_scenario" -> 0 - 30 * beta

\* C23: for a current price and a beta _perform_stress_tests returns exactly
\* the scenarios market_crash_20, sector_decline_15, interest_rate_shock and
\* recession_scenario, in that order, with stock_impact -20 x beta, -15,
\* -10 x min(beta, 1.5) and -30 x beta, and for each scenario
\* projected_price = current_price x (1 + stock_impact / 100) and
\* dollar_loss = current_price - projected_price; both are reported in
\* cents, so each lies within half a cent of its formula and their sum
\* within a cent of the current price.
C23_FourScenariosByFormula ==
    ( /\ Done("_perform_stress_tests")
      /\ IsNum(DictGet(args.stock_data, "latest_price", Num(100)))
      /\ IsNum(DictGet(args.stock_data, "beta", Num(100))) )
    => LET current_price == DictGet(args.stock_data, "latest_price", Num(100)).n
           beta == DictGet(args.stock_data, "beta", Num(100)).n
       IN  /\ "scenarios" \in DOMAIN ret
           /\ StressScenarioNames = << "market_crash_20", "sector_decline_15",
                                       "interest_rate_shock", "recession_scenario" >>
           /\ DOMAIN ret.scenarios = Items(StressScenarioNames)
           /\ \A name \in DOMAIN ret.scenarios :
                  LET scenario == ret.scenarios[name]
                      impact == StressImpactRule(name, beta)
                  IN  /\ scenario.stock_impact = impact
                      /\ 2 * Abs(100 * scenario.projected_price
                                 - current_price * (10000 + impact)) <= 100
                      /\ 2 * Abs(100 * scenario.dollar_loss
                                 - current_price * (0 - impact)) <= 100
                      /\ Abs(scenario.dollar_loss
                             - (100 * current_price - scenario.projected_price)) <= 1

C23_Witness ==
    /\ Done("_perform_stress_tests")
    /\ args.stock_data = [latest_price |-> Num(10), beta |-> Num(160)]
    /\ ret.scenarios.interest_rate_shock.stock_impact = 0 - 1500
    /\ ret.scenarios.interest_rate_shock.projected_price = 850
    /\ ret.scenarios.market_crash_20.dollar_loss = 320

\* the beta of a holding with the default 1.0 for one that is absent or None
BetaOrDefault(holding) ==
    IF IsNum(DictGet(holding, "beta", Num(100)))
    THEN DictGet(holding, "beta", Num(100)).n ELSE 100

\* the value-weighted beta of a portfolio, rounded to thousandths
ValueWeightedBeta(holdings) ==
    RoundDiv(10 * SeqSum([i \in 1..Len(holdings) |->
                            HoldingValue(holdings[i]).n * BetaOrDefault(holdings[i])]),
             SumValues(holdings))

\* C24: for a holdings list with a positive total value
\* portfolio_var_95_1day = total_value x 0.016 x portfolio_beta x 1.65
\* (reported in cents), where portfolio_beta is the value-weighted beta, and
\* risk_metrics reports that same portfolio_beta for the same holdings:
\* _calculate_portfolio_beta and _calculate_portfolio_risk_metrics agree.
C24_PortfolioVarUsesReportedBeta ==
    ( /\ Done("analyze_portfolio")
      /\ args.holdings # <<>>
      /\ NumericValues(args.holdings)
      /\ SumValues(args.holdings) > 0 )
    => /\ "var_analysis" \in DOMAIN ret
       /\ "portfolio_var_95_1day" \in DOMAIN ret.var_analysis
       /\ ret.var_analysis.portfolio_var_95_1day
              = RoundDiv(SumValues(args.holdings) * 16 * ValueWeightedBeta(args.holdings) * 165,
                         1000000)
       /\ "portfolio_beta" \in DOMAIN ret.risk_metrics
       /\ ret.risk_metrics.portfolio_beta = _calculate_portfolio_beta(args.holdings)

\* C25: for a portfolio with non-negative holding values and a positive
\* total value the average_correlation of _analyze_portfolio_correlations
\* (the sum over the unordered pairs of correlation x weight_i x weight_j,
\* divided by the number of pairs) is at most 0.25, so correlation_risk is
\* always Low: Moderate and High are never reported.
C25_AverageCorrelationAtMostQuarter ==
    ( /\ Done("analyze_portfolio")
      /\ NumericValues(args.holdings)
      /\ SumValues(args.holdings) > 0 )
    => /\ "average_correlation" \in DOMAIN ret.correlation_analysis
       /\ ret.correlation_analysis.average_correlation <= 250
       /\ ret.correlation_analysis.correlation_risk = "Low"

\* two equal holdings of one sector: the largest average there is
C25_Witness ==
    /\ Done("analyze_portfolio")
    /\ Len(args.holdings) = 2
    /\ HoldingSector(args.holdings[1]) = "Technology"
    /\ HoldingSector(args.holdings[2]) = "Technology"
    /\ ret.correlation_analysis = [average_correlation |-> 250, correlation_risk |-> "Low"]

\* C26: on every successful run of assess_investment_risk the risk_score
\* lies in 4..8: no qualitative factor it builds has the severity High and
\* the half point of the leverage adjustment is truncated; so risk_level is
\* Moderate or High, never Low or Very High.
C26_RiskScoreBetweenFourAndEight ==
    ( Done("assess_investment_risk") /\ "error" \notin DOMAIN ret )
    => /\ ret.risk_score \in 4..8
       /\ ret.risk_level \in {"Moderate", "High"}
       /\ \A i \in 1..Len(ret.qualitative_factors) : ~SeverityIsHigh(ret.qualitative_factors[i])

C26_Witness ==
    /\ Done("assess_investment_risk")
    /\ "error" \notin DOMAIN ret
    /\ ret.risk_score = 8
    /\ ret.risk_level = "High"
    /\ Len(ret.qualitative_factors) > 3

\* the concentration adjustment inside a health score built from a
\* diversification score d and a portfolio beta (thousandths)
ConcentrationAdjustment(health_score, d, beta) ==
    health_score - 60 - 3 * (d - 5)
      - (IF beta >= 800 /\ beta <= 1200 THEN 10
         ELSE IF beta >= 600 /\ beta <= 1400 THEN 5 ELSE 0 - 5)

\* the outputs on concentration agree: the priority item and the penalty
\* come exactly with the class High
ConcentrationOutputsAgree(metrics, action_items, health_score, d) ==
    /\ PriorityConcentration \in Items(action_items) <=> metrics.risk_concentration = "High"
    /\ ConcentrationAdjustment(health_score, d, metrics.portfolio_beta) \in {0 - 10, 0 - 15}
          <=> metrics.risk_concentration = "High"

\* C27: the concentration outputs of one portfolio analysis agree: the
\* action item 'PRIORITY: Reduce largest position to under 20% of
\* portfolio' is present exactly when risk_metrics.risk_concentration is
\* High, and the health score carries its -10 / -15 concentration penalty
\* exactly then.  analyze_portfolio hands the metrics it got from
\* _calculate_portfolio_risk_metrics to _generate_action_items and to
\* _calculate_portfolio_health_score.
C27_ConcentrationOutputsConsistent ==
    /\ ( /\ Done("analyze_portfolio")
         /\ "risk_metrics" \in DOMAIN ret
         /\ "risk_concentration" \in DOMAIN ret.risk_metrics
         /\ "diversification_score" \in DOMAIN ret.diversification )
       => ConcentrationOutputsAgree(ret.risk_metrics, ret.action_items, ret.health_score,
                                    ret.diversification.diversification_score)
    /\ ( Done("_calculate_portfolio_risk_metrics") /\ "risk_concentration" \in DOMAIN ret )
       => LET diversification == _analyze_portfolio_diversification(args.holdings)
          IN  ConcentrationOutputsAgree(ret, _generate_action_items(ret, diversification),
                                        _calculate_portfolio_health_score(ret, diversification),
                                        diversification.diversification_score)

\* the kinds of the recommendations of a verification
RecommendationKinds(recommendations) ==
    {recommendations[i].kind : i \in 1..Len(recommendations)}

\* C28: whenever the documentation verification of
\* verify_investment_suitability completes, client_acknowledgment is
\* reported missing, so compliance_recommendations starts with 'COMPLIANCE
\* REVIEW REQUIRED before proceeding' and has a MISSING DOCUMENTATION entry;
\* 'All compliance checks passed' is never emitted, even when
\* overall_suitable is true.
C28_AcknowledgmentAlwaysMissing ==
    ( /\ Done("verify_investment_suitability")
      /\ "documentation_status" \in DOMAIN ret
      /\ "missing_documents" \in DOMAIN ret.documentation_status )
    => LET recommendations == ret.compliance_recommendations
       IN  /\ "client_acknowledgment" \in Items(ret.documentation_status.missing_documents)
           /\ ~ret.documentation_status.all_required_present
           /\ recommendations[1].kind = "COMPLIANCE REVIEW REQUIRED before proceeding"
           /\ \E i \in 2..Len(recommendations) :
                  /\ recommendations[i].kind = "MISSING DOCUMENTATION"
                  /\ "client_acknowledgment" \in Items(recommendations[i].about)
           /\ "All compliance checks passed" \notin RecommendationKinds(recommendations)

C28_Witness ==
    /\ Done("verify_investment_suitability")
    /\ "documentation_status" \in DOMAIN ret
    /\ ret.overall_suitable = TRUE
    /\ ret.documentation_status.missing_documents = << "client_acknowledgment" >>
    /\ Len(ret.compliance_recommendations) = 2
    /\ ret.compliance_recommendations[2].kind = "MISSING DOCUMENTATION"

\* every suitability check of a verification passed; an error entry is no check
SuitabilityChecksPass(checks) ==
    \A k \in DOMAIN checks \ {"error"} : "passed" \in DOMAIN checks[k] /\ checks[k].passed

\* C30: the concentration analysis of verify_investment_suitability does not
\* depend on the client or the investment: the single-security (limit 20%),
\* sector (35%) and asset-class (80%) checks pass for every input, so no
\* investment is found unsuitable because of a concentration limit and
\* overall_suitable is decided by the suitability checks alone.
C30_ConcentrationNeverDecides ==
    ( Done("verify_investment_suitability") /\ "concentration_analysis" \in DOMAIN ret )
    => /\ ret.concentration_analysis
            = [ single_security |->
                    [passed |-> TRUE, current_percentage |-> 15, limit |-> 20],
                sector_concentration |->
                    [passed |-> TRUE, current_percentage |-> 25, limit |-> 35],
                asset_class_concentration |->
                    [passed |-> TRUE, current_percentage |-> 75, limit |-> 80] ]
       /\ "CONCENTRATION LIMIT EXCEEDED"
              \notin RecommendationKinds(ret.compliance_recommendations)
       /\ ret.overall_suitable = SuitabilityChecksPass(ret.suitability_checks)

\* an investment found unsuitable while every concentration check passed
C30_Witness ==
    /\ Done("verify_investment_suitability")
    /\ "concentration_analysis" \in DOMAIN ret
    /\ ret.overall_suitable = FALSE
    /\ \A k \in DOMAIN ret.concentration_analysis : ret.concentration_analysis[k].passed
    /\ \E k \in DOMAIN ret.suitability_checks \ {"error"} : ~ret.suitability_checks[k].passed

\* what a freshly constructed engine returns for the arguments of a call
FreshEngineReturns(r) ==
    IF r.op = "assess_investment_risk"
    THEN RiskAssessment(_initialize_correlation_matrix, r.given.ticker,
                        get_stock_data(StockTable, r.given.ticker),
                        r.given.research_data, r.given.client_risk_profile, r.at)
    ELSE PortfolioAnalysis(_initialize_correlation_matrix, r.given.client_id,
                           r.given.holdings, r.at)

\* C29: no result shares mutable structure with the lookup tables of the
\* engine: after any sequence of assess_investment_risk calls whose callers
\* modify the results they received (the sector_correlations map inside
\* correlation_analysis, say) the tables are as constructed and every later
\* call returns what a freshly constructed engine returns.
C29_ResultsShareNothingWithTables ==
    /\ sector_correlation_matrix = _initialize_correlation_matrix
    /\ \A r \in completed : r.ret = FreshEngineReturns(r)

====
